---- MODULE Spec2Model ----
\* Verification model of the concurrent resource-management layer of the
\* dashboard server:
\*   - SSHConnectionPool            (src/server/ssh_service.py)
\*   - WebSocketService (event hub) (src/server/websocket_service.py)
\* Every thread of the program is a process of the model; a step under a
\* threading.Lock is taken only by the holder of that lock.
EXTENDS Integers, Sequences, FiniteSets, TLC

\* ---------------------------------------------------------------------------
\* Bounds of the model
\* ---------------------------------------------------------------------------
\* number of threads calling SSHConnectionPool.get_connection
NumCallers == 3
\* number of server names (targets)
NumTargets == 2
\* number of get_connection calls made in one behaviour
MaxCalls == 3
\* SSHConnectionPool(max_connections=...): idle connections kept per server
max_connections == 2

\* cleanup_idle_connections(max_idle_time=600), in clock units of 600 s
max_idle_time == 1
\* last value of the clock read by time.time(): ages up to and beyond max_idle_time
MaxTime == max_idle_time + 1

\* number of WebSocket connections (calls of register_client) in one behaviour
MaxRegs == 2
\* number of memory addresses a WebSocket object can be allocated at
NumAddrs == 2
\* number of event types
NumEvents == 1
\* number of broadcast_event calls in one behaviour
MaxBroadcasts == 1

\* number of broadcast_event calls in one behaviour of the delivery specification
MaxDeliveries == MaxBroadcasts + 1

\* `self.ping_interval * 2` with ping_interval=30: 60 s, one unit of the hub clock
PingTimeout == 1
\* timedelta.seconds is the seconds part of a duration, 0 <= seconds < one day;
\* one day is 86400 s = 1440 clock units
DaySeconds == 1440
\* last value of the hub clock read by datetime.utcnow()
HubMaxTime == PingTimeout + 1

\* number of threads calling get_system_metrics
NumLookers == 2
\* number of servers whose metrics are asked for (one cache key each)
NumKeys == 1
\* number of non-empty metrics mappings the commands can produce
NumValues == 2
\* number of get_system_metrics calls in one behaviour
MaxLookups == 3
\* self._history_max_size (1000 in the code)
history_max_size == 2
\* MetricsService(cache_ttl=60): 60 s, one unit of the metrics clock
cache_ttl == 1
\* last value of the metrics clock before and after a day has passed
CacheMaxTime == cache_ttl + 1

Callers == 1..NumCallers
Targets == 1..NumTargets
\* connect_func makes at most one SSH client per call
ConnIds == 1..MaxCalls
\* Python's None for a connection variable
None == 0
\* holder of SSHConnectionPool.lock: a caller, the cleanup thread, or nobody
Free == 0
Reaper == 0 - 1

\* one Client record (and its connection handler and message thread) per
\* register_client call
Regs == 1..MaxRegs
\* id(ws): the address of the WebSocket object
Addrs == 1..NumAddrs
EventTypes == 1..NumEvents
\* messages on a message_queue: a broadcast (its number), the shutdown signal
\* None of unregister_client
Stop == 0
\* holders of _client_lock and _handler_lock: the handler of connection r is r
Broadcaster == 0 - 1

Lookers == 1..NumLookers
Keys == 1..NumKeys
\* the metrics mapping built by get_system_metrics: {} (no command gave a
\* value) or a non-empty mapping
Empty == 0
Values == 0..NumValues
\* Python's None returned by _get_from_cache
NoData == 0 - 1

VARIABLES
    \* ---- SSHConnectionPool ----
    connections,    \* self.connections: server name -> list of (client, last_used)
    lock,           \* self.lock: Free or the caller holding it
    now,            \* time.time()
    pc,             \* per caller: position inside get_connection
    server_name,    \* per caller: argument of get_connection
    connection,     \* per caller: local variable `connection`
    next_conn,      \* next SSH client object connect_func will create
    calls,          \* number of get_connection calls started so far
    rpc,            \* position of cleanup_worker
    current_time,   \* local of cleanup_idle_connections
    \* ---- observation of the pool (history only, never read by the program) ----
    popped,         \* per caller: client popped from the idle list by this call
    probe_failed,   \* per caller: send_ignore raised in this call
    connect_calls,  \* per caller: calls of connect_func in this call
    closed,         \* per client: number of close() calls
    reaped,         \* clients closed by cleanup_idle_connections
    add_order,      \* per server: the idle clients in the order they were added
    last_pass,      \* the last cleanup pass: the clients it called close() on
                    \* and those whose close() raised
    trail,          \* the last step that ended a call or changed the pool, and
                    \* what it did: "acquire" (a client was yielded to .caller; .conn
                    \* is the client when it is the one the directly preceding
                    \* "lease_release" returned), "lease_release" (normal return of
                    \* client .conn of server .t directly after that lease's own
                    \* "acquire"), "release" / "release_full" (any other normal
                    \* return, with / without room), "connect_failed",
                    \* "body_raised", "reap"
    \* ---- WebSocketService ----
    clients,        \* self.clients: client id -> Client record (its connection)
    event_handlers, \* self.event_handlers: event type -> set of client ids
    client_lock,    \* self._client_lock: Free or the thread holding it
    handler_lock,   \* self._handler_lock: Free or the thread holding it
    hnow,           \* datetime.utcnow()
    ws,             \* per connection: address of its WebSocket object (None: no object)
    subscriptions,  \* per connection: Client.subscriptions
    last_ping,      \* per connection: Client.last_ping
    message_queue,  \* per connection: Client.message_queue
    hpc,            \* per connection: position of its handler (event_stream)
    h_op,           \* per connection: the subscribe/unsubscribe call in progress
    dpc,            \* per connection: position of its message_worker thread
    dmsg,           \* per connection: message taken by message_worker
    rm_iter,        \* per connection: iterator of _remove_client called by the thread
    bpc,            \* position of the thread inside broadcast_event
    b_call,         \* broadcast_event: event type, message, iterator, current client
    spc,            \* position of ping_worker
    s_time,         \* current_time of _check_client_health
    \* ---- observation of the hub (history only) ----
    issued,         \* ids returned by register_client, in order
    enqueued,       \* per connection: every message put on its queue, in order
    written,        \* per connection: every message written to its WebSocket
    bcasts,         \* number of broadcast_event calls started
    b_stable,       \* connections registered and subscribed to the event of the
                    \* running broadcast since it started
    last_msg,       \* the last client message handle_client_message was given:
                    \* connection, kind of message, and how the call ended
    \* ---- MetricsService ----
    mcache,         \* self._cache: cache key -> MetricCache(data, timestamp, ttl)
    metric_history, \* self._metric_history: key -> list of {timestamp, data}
    mnow,           \* datetime.utcnow()
    lpc,            \* per caller: position inside get_system_metrics
    cache_key,      \* per caller: local variable cache_key
    metrics,        \* per caller: local variable metrics (the producer's result)
    kpc,            \* position of the cache cleanup_worker
    k_time,         \* current_time of _cleanup_cache
    \* ---- observation of the metrics service (history only) ----
    lookups,        \* number of get_system_metrics calls started so far
    m_trail,        \* the last step of a lookup and what it did
    appended,       \* per key: every entry _store_in_history appended, in order
    cache_order,    \* the keys of self._cache in dict (insertion) order
    hist_call,      \* the last get_metrics_history call: its arguments, the
                    \* series at the call and the list returned
    held,           \* the list object that call returned, as its caller holds
                    \* it: .live when it is the list object of the series
    \* ---- the locks along one get_system_metrics call ----
    cache_lock,     \* self._cache_lock: Free or the thread holding it
    collection_lock, \* self._collection_lock: Free or the thread holding it
    xpc             \* per thread: the next lock step of its get_system_metrics
                    \* call (0: the thread is not inside a call)

poolVars == <<connections, lock, now, pc, server_name, connection, next_conn, calls, rpc,
              current_time, popped, probe_failed, connect_calls,
              closed, reaped, add_order, last_pass, trail>>

hubVars == <<clients, event_handlers, client_lock, handler_lock, hnow, ws,
             subscriptions, last_ping, message_queue, hpc, h_op, dpc, dmsg, rm_iter,
             bpc, b_call, spc, s_time, issued, enqueued, written, bcasts, b_stable>>

msgVars == <<last_msg>>

cacheVars == <<mcache, metric_history, mnow, lpc, cache_key, metrics, kpc, k_time,
               lookups, m_trail, appended, cache_order>>

histVars == <<hist_call, held>>

crossVars == <<cache_lock, collection_lock, xpc>>

\* what the steps of one service leave alone
nonPoolVars == <<hubVars, msgVars, cacheVars, histVars, crossVars>>
nonHubVars == <<poolVars, msgVars, cacheVars, histVars, crossVars>>
nonCacheVars == <<poolVars, hubVars, msgVars, histVars, crossVars>>

vars == <<poolVars, hubVars, msgVars, cacheVars, histVars, crossVars>>

\* ---------------------------------------------------------------------------
\* SSHConnectionPool: helpers
\* ---------------------------------------------------------------------------
\* `server_name in self.connections and self.connections[server_name]`
HasIdle(t) ==
    t \in DOMAIN connections /\ Len(connections[t]) > 0

\* list.pop(): index of the element removed
PopIndexFirst(l) ==
    1
PopIndex(l) ==
    Len(l)

\* list after list.pop()
AfterPopKeep(l) ==
    l
AfterPop(l) ==
    [i \in 1..(Len(l) - 1) |-> IF i < PopIndex(l) THEN l[i] ELSE l[i + 1]]

\* `len(self.connections[server_name]) < self.max_connections`
HasRoomAlways(l) ==
    TRUE
HasRoom(l) ==
    Len(l) < max_connections

\* `current_time - last_used > max_idle_time`
IsIdleTooLongOrEqual(ct, last_used) ==
    ct - last_used >= max_idle_time
IsIdleTooLong(ct, last_used) ==
    ct - last_used > max_idle_time

\* active_connections of one server: the entries kept, in list order
RECURSIVE ActiveConnections(_, _)
ActiveConnections(l, ct) ==
    IF l = <<>> THEN <<>>
    ELSE IF IsIdleTooLong(ct, Head(l).last_used)
         THEN ActiveConnections(Tail(l), ct)
         ELSE <<Head(l)>> \o ActiveConnections(Tail(l), ct)

\* line 42-55: the list a pass leaves for one server when close() raised on
\* the clients in `failed`: the except clause appends nothing
SweptListKeepFailed(l, ct, failed) ==
    SelectSeq(l, LAMBDA e : ~IsIdleTooLong(ct, e.last_used) \/ e.client \in failed)
SweptList(l, ct, failed) ==
    ActiveConnections(l, ct)

IdleClients(t) ==
    IF t \in DOMAIN connections
    THEN {connections[t][i].client : i \in 1..Len(connections[t])}
    ELSE {}

AllIdleClients ==
    UNION {IdleClients(t) : t \in Targets}

\* clients of server t on which a pass with clock value ct calls close()
ExpiredClients(t, ct) ==
    {connections[t][i].client : i \in {j \in 1..Len(connections[t]) :
                                         IsIdleTooLong(ct, connections[t][j].last_used)}}

\* self.connections after `if server_name not in self.connections: ... = []`
WithEntry(t) ==
    IF t \in DOMAIN connections
    THEN connections
    ELSE [x \in DOMAIN connections \cup {t} |-> IF x = t THEN <<>> ELSE connections[x]]

\* a sequence without the element k
RECURSIVE Without(_, _)
Without(s, k) ==
    IF s = <<>> THEN <<>>
    ELSE IF Head(s) = k THEN Without(Tail(s), k) ELSE <<Head(s)>> \o Without(Tail(s), k)

NoPass == [expired |-> {}, failed |-> {}]
NoTrail == [op |-> "none", caller |-> 0, t |-> 0, conn |-> None]
Trail(op, c, t, k) == [op |-> op, caller |-> c, t |-> t, conn |-> k]

\* ---------------------------------------------------------------------------
\* SSHConnectionPool: initial state (after __init__)
\* ---------------------------------------------------------------------------
PoolInit ==
    /\ connections = <<>>
    /\ lock = Free
    /\ now = 0
    /\ pc = [c \in Callers |-> "idle"]
    /\ server_name = [c \in Callers |-> 1]
    /\ connection = [c \in Callers |-> None]
    /\ next_conn = 1
    /\ calls = 0
    /\ rpc = "sleep"
    /\ current_time = 0
    /\ popped = [c \in Callers |-> None]
    /\ probe_failed = [c \in Callers |-> FALSE]
    /\ connect_calls = [c \in Callers |-> 0]
    /\ closed = [k \in ConnIds |-> 0]
    /\ reaped = {}
    /\ add_order = [t \in Targets |-> <<>>]
    /\ last_pass = NoPass
    /\ trail = NoTrail

\* ---------------------------------------------------------------------------
\* SSHConnectionPool.get_connection
\* A caller is at "idle" (outside the call), "probe" (line 67, lock held),
\* "connect" (line 74, lock held) or "using" (suspended at the yield, line 77).
\* ---------------------------------------------------------------------------
\* line 58-64: the call starts, `with self.lock:` is entered and an idle client
\* is popped if there is one. Threads outside a call are interchangeable: the
\* call is made by the first of them.
AcquireLockBounded(c, t) ==
    /\ UNCHANGED last_pass
    /\ pc[c] = "idle"
    /\ \A d \in Callers : d < c => pc[d] # "idle"
    /\ calls < MaxCalls
    /\ calls' = calls + 1
    /\ lock = Free
    /\ Cardinality({d \in Callers : pc[d] = "using" /\ server_name[d] = t})
           < max_connections
    /\ lock' = c
    /\ server_name' = [server_name EXCEPT ![c] = t]
    /\ IF HasIdle(t)
       THEN LET k == connections[t][PopIndex(connections[t])].client IN
            /\ connections' = [connections EXCEPT ![t] = AfterPop(connections[t])]
            /\ connection' = [connection EXCEPT ![c] = k]
            /\ popped' = [popped EXCEPT ![c] = k]
            /\ add_order' = [add_order EXCEPT ![t] = Without(add_order[t], k)]
            /\ pc' = [pc EXCEPT ![c] = "probe"]
       ELSE /\ pc' = [pc EXCEPT ![c] = "connect"]
            /\ UNCHANGED <<connections, connection, popped, add_order>>
    /\ UNCHANGED <<now, next_conn, rpc, current_time, probe_failed, connect_calls,
                   closed, reaped, trail>>
    /\ UNCHANGED nonPoolVars

AcquireLock(c, t) ==
    /\ UNCHANGED last_pass
    /\ pc[c] = "idle"
    /\ \A d \in Callers : d < c => pc[d] # "idle"
    /\ calls < MaxCalls
    /\ calls' = calls + 1
    /\ lock = Free
    /\ lock' = c
    /\ server_name' = [server_name EXCEPT ![c] = t]
    /\ IF HasIdle(t)
       THEN LET k == connections[t][PopIndex(connections[t])].client IN
            /\ connections' = [connections EXCEPT ![t] = AfterPop(connections[t])]
            /\ connection' = [connection EXCEPT ![c] = k]
            /\ popped' = [popped EXCEPT ![c] = k]
            /\ add_order' = [add_order EXCEPT ![t] = Without(add_order[t], k)]
            /\ pc' = [pc EXCEPT ![c] = "probe"]
       ELSE /\ pc' = [pc EXCEPT ![c] = "connect"]
            /\ UNCHANGED <<connections, connection, popped, add_order>>
    /\ UNCHANGED <<now, next_conn, rpc, current_time, probe_failed, connect_calls,
                   closed, reaped, trail>>
    /\ UNCHANGED nonPoolVars

\* line 75-77: the with-block ends (lock released), `yield connection`
Yield(c, k) ==
    /\ lock' = Free
    /\ connection' = [connection EXCEPT ![c] = k]
    /\ trail' = Trail("acquire", c, 0,
                       IF trail.op = "lease_release" /\ trail.t = server_name[c]
                          /\ trail.conn = k
                       THEN k ELSE None)
    /\ pc' = [pc EXCEPT ![c] = "using"]

\* line 69-71: send_ignore raised: the variable is set to None (the client is
\* dropped without close()) and line 73 goes on to connect_func
ProbeFailUnlocked(c) ==
    /\ probe_failed' = [probe_failed EXCEPT ![c] = TRUE]
    /\ connection' = [connection EXCEPT ![c] = None]
    /\ pc' = [pc EXCEPT ![c] = "connect"]
    /\ lock' = Free
    /\ UNCHANGED trail
ProbeFailKeep(c) ==
    /\ probe_failed' = [probe_failed EXCEPT ![c] = TRUE]
    /\ Yield(c, connection[c])
ProbeFail(c) ==
    /\ probe_failed' = [probe_failed EXCEPT ![c] = TRUE]
    /\ connection' = [connection EXCEPT ![c] = None]
    /\ pc' = [pc EXCEPT ![c] = "connect"]
    /\ UNCHANGED <<lock, trail>>

\* line 65-68: connection.get_transport().send_ignore()
Probe(c) ==
    /\ UNCHANGED last_pass
    /\ pc[c] = "probe"
    /\ \/ /\ Yield(c, connection[c])
          /\ UNCHANGED probe_failed
       \/ ProbeFail(c)
    /\ UNCHANGED <<connections, now, server_name, next_conn, calls, rpc, current_time,
                   popped, connect_calls, closed, reaped, add_order>>
    /\ UNCHANGED nonPoolVars

\* line 73-77: connect_func() returns a new client, which is yielded
ConnectOk(c) ==
    /\ UNCHANGED last_pass
    /\ pc[c] = "connect"
    /\ connection[c] = None
    /\ next_conn' = next_conn + 1
    /\ connect_calls' = [connect_calls EXCEPT ![c] = @ + 1]
    /\ Yield(c, next_conn)
    /\ UNCHANGED <<connections, now, server_name, calls, rpc, current_time, popped,
                   probe_failed, closed, reaped, add_order>>
    /\ UNCHANGED nonPoolVars

\* what the caller sees once a call is over: the observations of the call
\* are forgotten
CallOver(c) ==
    /\ pc' = [pc EXCEPT ![c] = "idle"]
    /\ server_name' = [server_name EXCEPT ![c] = 1]
    /\ connection' = [connection EXCEPT ![c] = None]
    /\ popped' = [popped EXCEPT ![c] = None]
    /\ probe_failed' = [probe_failed EXCEPT ![c] = FALSE]
    /\ connect_calls' = [connect_calls EXCEPT ![c] = 0]

\* line 74 raising: the with-block releases the lock, the finally clause finds
\* connection None, the exception leaves get_connection
ConnectFailLocked(c) ==
    /\ CallOver(c)
    /\ trail' = Trail("connect_failed", 0, 0, None)
    /\ UNCHANGED <<lock, connections, add_order>>
ConnectFailEffect(c) ==
    /\ CallOver(c)
    /\ lock' = Free
    /\ trail' = Trail("connect_failed", 0, 0, None)
    /\ UNCHANGED <<connections, add_order>>

ConnectFail(c) ==
    /\ UNCHANGED last_pass
    /\ pc[c] = "connect"
    /\ connection[c] = None
    /\ ConnectFailEffect(c)
    /\ UNCHANGED <<now, next_conn, calls, rpc, current_time, closed, reaped>>
    /\ UNCHANGED nonPoolVars

\* line 87-92: finally: close the client unless it went back to the pool
\* (an exception of close() is logged and swallowed)
FinallyAlways(k) ==
    closed' = [closed EXCEPT ![IF k = None THEN 1 ELSE k] = @ + 1]
Finally(k) ==
    IF k # None
    THEN closed' = [closed EXCEPT ![k] = @ + 1]
    ELSE UNCHANGED closed

\* the with-body raises: contextmanager throws into the generator at the
\* yield, control goes to the finally clause (line 87-92)
BodyRaisesPooled(c) ==
    /\ UNCHANGED last_pass
    /\ pc[c] = "using"
    /\ trail' = Trail("body_raised", 0, server_name[c], connection[c])
    /\ LET conns == WithEntry(server_name[c]) IN
       connections' = [conns EXCEPT ![server_name[c]] =
                          Append(@, [client |-> connection[c], last_used |-> now])]
    /\ add_order' = [add_order EXCEPT ![server_name[c]] = Append(@, connection[c])]
    /\ CallOver(c)
    /\ UNCHANGED <<closed, lock, now, next_conn, calls, rpc, current_time, reaped>>
    /\ UNCHANGED nonPoolVars
BodyRaises(c) ==
    /\ UNCHANGED last_pass
    /\ pc[c] = "using"
    /\ trail' = Trail("body_raised", 0, server_name[c], connection[c])
    /\ Finally(connection[c])
    /\ CallOver(c)
    /\ UNCHANGED <<connections, lock, now, next_conn, calls, rpc,
                   current_time, reaped, add_order>>
    /\ UNCHANGED nonPoolVars

\* line 80-92: the with-body ended normally; under the lock the client goes
\* back to the idle list if there is room, then the finally clause runs
ReturnToPool(c) ==
    /\ UNCHANGED last_pass
    /\ pc[c] = "using"
    /\ lock = Free
    /\ LET t == server_name[c]
           conns == WithEntry(t)
       IN
       /\ IF HasRoom(conns[t])
          THEN /\ connections' = [conns EXCEPT ![t] =
                      Append(@, [client |-> connection[c], last_used |-> now])]
               /\ add_order' = [add_order EXCEPT ![t] = Append(@, connection[c])]
               /\ Finally(None)
          ELSE /\ connections' = conns
               /\ Finally(connection[c])
               /\ UNCHANGED add_order
       /\ trail' = IF trail.op = "acquire" /\ trail.caller = c
                   THEN Trail("lease_release", 0, t, connection[c])
                   ELSE IF HasRoom(conns[t])
                        THEN Trail("release", 0, 0, None)
                        ELSE Trail("release_full", 0, 0, None)
    /\ CallOver(c)
    /\ UNCHANGED <<lock, now, next_conn, calls, rpc, current_time,
                   reaped>>
    /\ UNCHANGED nonPoolVars

\* ---------------------------------------------------------------------------
\* cleanup_worker / cleanup_idle_connections
\* ---------------------------------------------------------------------------
\* line 30, 38: the sleep ends, current_time = time.time()
ReaperWake ==
    /\ UNCHANGED last_pass
    /\ rpc = "sleep"
    /\ current_time' = now
    /\ rpc' = "start"
    /\ UNCHANGED <<connections, lock, now, pc, server_name, connection, next_conn, calls,
                   popped, probe_failed, connect_calls, closed, reaped,
                   add_order, trail>>
    /\ UNCHANGED nonPoolVars

\* line 39-55: under the lock, the loop over all servers; close() of any of
\* the expired clients may raise (line 48-49: logged, the loop goes on)
ReaperSweep ==
    /\ rpc = "start"
    /\ lock = Free
    /\ LET expired == UNION {ExpiredClients(t, current_time) : t \in DOMAIN connections}
       IN
       /\ \E failed \in SUBSET expired :
              LET swept == [t \in DOMAIN connections |->
                               SweptList(connections[t], current_time, failed)]
                  kept == {t \in DOMAIN connections : swept[t] # <<>>}
              IN
              /\ connections' = [t \in kept |-> swept[t]]
              /\ last_pass' = [expired |-> expired, failed |-> failed]
       /\ closed' = [k \in ConnIds |-> IF k \in expired THEN closed[k] + 1 ELSE closed[k]]
       /\ reaped' = reaped \cup expired
       /\ add_order' = [t \in Targets |->
                           SelectSeq(add_order[t], LAMBDA k : k \notin expired)]
    /\ trail' = Trail("reap", 0, 0, None)
    /\ rpc' = "sleep"
    /\ current_time' = 0
    /\ UNCHANGED <<lock, now, pc, server_name, connection, next_conn, calls,
                   popped, probe_failed, connect_calls>>
    /\ UNCHANGED nonPoolVars

\* time.time() advances
Tick ==
    /\ UNCHANGED last_pass
    /\ now < MaxTime
    /\ now' = now + 1
    /\ UNCHANGED <<connections, lock, pc, server_name, connection, next_conn, calls, rpc,
                   current_time, popped, probe_failed, connect_calls,
                   closed, reaped, add_order, trail>>
    /\ UNCHANGED nonPoolVars

NextPool ==
    \/ \E c \in Callers, t \in Targets : AcquireLock(c, t)
    \/ \E c \in Callers : Probe(c)
    \/ \E c \in Callers : ConnectOk(c)
    \/ \E c \in Callers : ConnectFail(c)
    \/ \E c \in Callers : BodyRaises(c)
    \/ \E c \in Callers : ReturnToPool(c)
    \/ ReaperWake
    \/ ReaperSweep
    \/ Tick

\* ---------------------------------------------------------------------------
\* WebSocketService: helpers
\* ---------------------------------------------------------------------------
\* dict without key k (`del d[k]`)
DictWithoutKeep(d, k) ==
    d
DictWithout(d, k) ==
    [x \in (DOMAIN d) \ {k} |-> d[x]]

\* dict with d[k] = v
DictWithKeepOld(d, k, v) ==
    [x \in (DOMAIN d) \cup {k} |-> IF x \in DOMAIN d THEN d[x] ELSE v]
DictWith(d, k, v) ==
    [x \in (DOMAIN d) \cup {k} |-> IF x = k THEN v ELSE d[x]]

\* addresses of the WebSocket objects that are still referenced: by the
\* handler of the connection, by a registered Client record or by the
\* message thread of the record
Referenced(r) ==
    /\ ws[r] # None
    /\ \/ hpc[r] \notin {"new", "closed"}
       \/ dpc[r] # "done"
       \/ (ws[r] \in DOMAIN clients /\ clients[ws[r]] = r)
LiveAddrs ==
    {ws[r] : r \in {q \in Regs : Referenced(q)}}

\* str(id(ws)): the id register_client gives to the connection whose
\* WebSocket object is at address a
ClientId(a) ==
    a

\* timedelta.seconds of a duration d (days are carried in timedelta.days)
Seconds(d) ==
    d % DaySeconds

\* `(current_time - client.last_ping).seconds > self.ping_interval * 2`
IsTimedOut(ct, lp) ==
    Seconds(ct - lp) > PingTimeout

\* self.event_handlers after the loop of _remove_client over the
\* subscriptions of client id
DiscardedNone(handlers, id, subs) ==
    handlers
DiscardedAll(handlers, id, subs) ==
    [e \in DOMAIN handlers |-> IF e \in subs THEN handlers[e] \ {id} ELSE handlers[e]]

\* number of copies of message m in a sequence of messages
CountOf(m, q) ==
    Cardinality({i \in 1..Len(q) : q[i] = m})

NoMsg == [rec |-> 0, kind |-> "none", outcome |-> "none"]
NoIter == [rec |-> 0, size |-> 0, seen |-> {}]
NoCall == [event |-> 0, msg |-> 0, size |-> 0, seen |-> {}, to |-> None,
           result |-> "none"]

\* ---------------------------------------------------------------------------
\* WebSocketService: initial state (after __init__)
\* ---------------------------------------------------------------------------
HubInit ==
    /\ clients = <<>>
    /\ event_handlers = <<>>
    /\ client_lock = Free
    /\ handler_lock = Free
    /\ hnow = 0
    /\ ws = [r \in Regs |-> None]
    /\ subscriptions = [r \in Regs |-> {}]
    /\ last_ping = [r \in Regs |-> 0]
    /\ message_queue = [r \in Regs |-> <<>>]
    /\ hpc = [r \in Regs |-> "new"]
    /\ h_op = [r \in Regs |-> 0]
    /\ dpc = [r \in Regs |-> "done"]
    /\ dmsg = [r \in Regs |-> Stop]
    /\ rm_iter = [r \in Regs |-> NoIter]
    /\ bpc = "idle"
    /\ b_call = NoCall
    /\ spc = "sleep"
    /\ s_time = 0
    /\ issued = <<>>
    /\ enqueued = [r \in Regs |-> <<>>]
    /\ written = [r \in Regs |-> <<>>]
    /\ bcasts = 0
    /\ b_stable = {}
    /\ last_msg = NoMsg

\* ---------------------------------------------------------------------------
\* Connection handler (event_stream / websocket route) of connection r:
\* "new" (no connection yet), "open" (registered, in the receive loop), "sub" /
\* "unsub" (inside subscribe / unsubscribe, _client_lock held, waiting for
\* _handler_lock), "ping_blocked" (inside _handle_ping, at line 148), "closed"
\* ---------------------------------------------------------------------------
\* websocket_service.py line 56-73: a WebSocket object is allocated at a free
\* address a (the addresses are interchangeable: the first object of the
\* process is at the first one); register_client stores a new Client under
\* str(id(ws)) and starts its message thread
RegisterClient(r, a) ==
    /\ hpc[r] = "new"
    /\ \A q \in Regs : q < r => hpc[q] # "new"
    /\ a \notin LiveAddrs
    /\ issued = <<>> => a = 1
    /\ client_lock = Free
    /\ ws' = [ws EXCEPT ![r] = a]
    /\ subscriptions' = [subscriptions EXCEPT ![r] = {}]
    /\ last_ping' = [last_ping EXCEPT ![r] = hnow]
    /\ message_queue' = [message_queue EXCEPT ![r] = <<>>]
    /\ clients' = DictWith(clients, ClientId(a), r)
    /\ issued' = Append(issued, ClientId(a))
    /\ dpc' = [dpc EXCEPT ![r] = "wait"]
    /\ hpc' = [hpc EXCEPT ![r] = "open"]
    /\ UNCHANGED <<event_handlers, client_lock, handler_lock, hnow, h_op, dmsg,
                   rm_iter, bpc, b_call, spc, s_time, enqueued, written, bcasts,
                   b_stable>>
    /\ UNCHANGED nonHubVars

\* line 111-113 / 122-124: handle_client_message calls subscribe or
\* unsubscribe, which takes _client_lock first
SubscribeLock(r, op, e) ==
    /\ hpc[r] = "open"
    /\ client_lock = Free
    /\ client_lock' = r
    /\ hpc' = [hpc EXCEPT ![r] = op]
    /\ h_op' = [h_op EXCEPT ![r] = e]
    /\ UNCHANGED <<clients, event_handlers, handler_lock, hnow, ws, subscriptions,
                   last_ping, message_queue, dpc, dmsg, rm_iter, bpc, b_call, spc,
                   s_time, issued, enqueued, written, bcasts, b_stable>>
    /\ UNCHANGED nonHubVars

\* line 113-119: with both locks held, subscribe updates the Client and the index
SubscribeUnchecked(r) ==
    /\ hpc[r] = "sub"
    /\ handler_lock = Free
    /\ LET id == ClientId(ws[r])
           e == h_op[r]
       IN
       IF id \in DOMAIN clients
       THEN /\ subscriptions' = [subscriptions EXCEPT ![clients[id]] = @ \cup {e}]
            /\ event_handlers' =
                   DictWith(event_handlers, e,
                            (IF e \in DOMAIN event_handlers THEN event_handlers[e] ELSE {})
                                \cup {id})
       ELSE /\ event_handlers' =
                   DictWith(event_handlers, e,
                            (IF e \in DOMAIN event_handlers THEN event_handlers[e] ELSE {})
                                \cup {id})
            /\ UNCHANGED subscriptions
    /\ client_lock' = Free
    /\ hpc' = [hpc EXCEPT ![r] = "open"]
    /\ h_op' = [h_op EXCEPT ![r] = 0]
    /\ UNCHANGED <<clients, handler_lock, hnow, ws, last_ping, message_queue, dpc,
                   dmsg, rm_iter, bpc, b_call, spc, s_time, issued, enqueued, written,
                   bcasts, b_stable>>
    /\ UNCHANGED nonHubVars
Subscribe(r) ==
    /\ hpc[r] = "sub"
    /\ handler_lock = Free
    /\ LET id == ClientId(ws[r])
           e == h_op[r]
       IN
       IF id \in DOMAIN clients
       THEN /\ subscriptions' = [subscriptions EXCEPT ![clients[id]] = @ \cup {e}]
            /\ event_handlers' =
                   DictWith(event_handlers, e,
                            (IF e \in DOMAIN event_handlers THEN event_handlers[e] ELSE {})
                                \cup {id})
       ELSE UNCHANGED <<subscriptions, event_handlers>>
    /\ client_lock' = Free
    /\ hpc' = [hpc EXCEPT ![r] = "open"]
    /\ h_op' = [h_op EXCEPT ![r] = 0]
    /\ UNCHANGED <<clients, handler_lock, hnow, ws, last_ping, message_queue, dpc,
                   dmsg, rm_iter, bpc, b_call, spc, s_time, issued, enqueued, written,
                   bcasts, b_stable>>
    /\ UNCHANGED nonHubVars

\* line 124-129: with both locks held, unsubscribe updates the Client and the index
Unsubscribe(r) ==
    /\ hpc[r] = "unsub"
    /\ handler_lock = Free
    /\ LET id == ClientId(ws[r])
           e == h_op[r]
       IN
       IF id \in DOMAIN clients
       THEN /\ subscriptions' = [subscriptions EXCEPT ![clients[id]] = @ \ {e}]
            /\ event_handlers' =
                   IF e \in DOMAIN event_handlers
                   THEN [event_handlers EXCEPT ![e] = @ \ {id}]
                   ELSE event_handlers
       ELSE UNCHANGED <<subscriptions, event_handlers>>
    /\ client_lock' = Free
    /\ hpc' = [hpc EXCEPT ![r] = "open"]
    /\ h_op' = [h_op EXCEPT ![r] = 0]
    /\ UNCHANGED <<clients, handler_lock, hnow, ws, last_ping, message_queue, dpc,
                   dmsg, rm_iter, bpc, b_call, spc, s_time, issued, enqueued, written,
                   bcasts, b_stable>>
    /\ UNCHANGED nonHubVars

\* line 179-184: _handle_ping takes _client_lock, sets last_ping and calls
\* send_to_client, which waits at line 148 for the _client_lock its own
\* thread holds (threading.Lock is not reentrant)
HandlePing(r) ==
    /\ hpc[r] = "open"
    /\ client_lock = Free
    /\ LET id == ClientId(ws[r]) IN
       IF id \in DOMAIN clients
       THEN /\ last_ping' = [last_ping EXCEPT ![clients[id]] = hnow]
            /\ client_lock' = r
            /\ hpc' = [hpc EXCEPT ![r] = "ping_blocked"]
       ELSE UNCHANGED <<last_ping, client_lock, hpc>>
    /\ UNCHANGED <<clients, event_handlers, handler_lock, hnow, ws, subscriptions,
                   message_queue, h_op, dpc, dmsg, rm_iter, bpc, b_call, spc, s_time,
                   issued, enqueued, written, bcasts, b_stable>>
    /\ UNCHANGED nonHubVars

\* client messages that are not a ping, subscribe or unsubscribe request:
\* text that is not JSON, JSON that is not an object (a list, a string, a
\* number, null), an object with another `type`
MalformedKinds == {"not_json", "not_object", "unknown_type"}

\* what handle_client_message does with such a message (line 164-177):
\* json.loads raises JSONDecodeError, caught at line 176 ("dropped");
\* data.get raises AttributeError on a value that is not a dict, which line
\* 176 does not catch and with_error_handling re-raises ("raised"); an unknown
\* type is logged at line 175 ("dropped")
Outcome(kind) ==
    IF kind = "not_object" THEN "raised" ELSE "dropped"

\* line 161-177 and websocket_routes.py line 116-125: the handler gets such a
\* message in its receive loop; an exception of handle_client_message leaves
\* the loop (the `except` at line 121 is outside the `while`), and the handler
\* goes on to unregister_client in the finally clause
HandleClientMessage(r, kind) ==
    /\ UNCHANGED <<poolVars, cacheVars, histVars, crossVars>>
    /\ hpc[r] = "open"
    /\ last_msg' = [rec |-> r, kind |-> kind, outcome |-> Outcome(kind)]
    /\ hpc' = [hpc EXCEPT ![r] = IF Outcome(kind) = "raised" THEN "raised" ELSE @]
    /\ UNCHANGED <<clients, event_handlers, client_lock, handler_lock, hnow, ws,
                   subscriptions, last_ping, message_queue, h_op, dpc, dmsg, rm_iter,
                   bpc, b_call, spc, s_time, issued, enqueued, written, bcasts,
                   b_stable>>

\* line 91-108: the connection ends; under _client_lock unregister_client
\* puts the shutdown signal on the queue and calls _remove_client
UnregisterClientFlush(r) ==
    /\ hpc[r] \in {"open", "raised"}
    /\ client_lock = Free
    /\ LET id == ClientId(ws[r]) IN
       IF id \in DOMAIN clients
       THEN LET q == clients[id] IN
            /\ message_queue' = [message_queue EXCEPT ![q] = <<Stop>>]
            /\ enqueued' = [enqueued EXCEPT ![q] = Append(@, Stop)]
            /\ event_handlers' = DiscardedAll(event_handlers, id, subscriptions[q])
            /\ clients' = DictWithout(clients, id)
            /\ b_stable' = b_stable \ {q}
       ELSE UNCHANGED <<message_queue, enqueued, event_handlers, clients, b_stable>>
    /\ hpc' = [hpc EXCEPT ![r] = "closed"]
    /\ UNCHANGED <<client_lock, handler_lock, hnow, ws, subscriptions, last_ping,
                   h_op, dpc, dmsg, rm_iter, bpc, b_call, spc, s_time, issued, written,
                   bcasts>>
    /\ UNCHANGED nonHubVars
UnregisterClient(r) ==
    /\ hpc[r] \in {"open", "raised"}
    /\ client_lock = Free
    /\ LET id == ClientId(ws[r]) IN
       IF id \in DOMAIN clients
       THEN LET q == clients[id] IN
            /\ message_queue' = [message_queue EXCEPT ![q] = Append(@, Stop)]
            /\ enqueued' = [enqueued EXCEPT ![q] = Append(@, Stop)]
            /\ event_handlers' = DiscardedAll(event_handlers, id, subscriptions[q])
            /\ clients' = DictWithout(clients, id)
            /\ b_stable' = b_stable \ {q}
       ELSE UNCHANGED <<message_queue, enqueued, event_handlers, clients, b_stable>>
    /\ hpc' = [hpc EXCEPT ![r] = "closed"]
    /\ UNCHANGED <<client_lock, handler_lock, hnow, ws, subscriptions, last_ping,
                   h_op, dpc, dmsg, rm_iter, bpc, b_call, spc, s_time, issued, written,
                   bcasts>>
    /\ UNCHANGED nonHubVars

\* connection r has a Client record in the registry
IsRegistered(r) ==
    /\ ws[r] # None
    /\ ClientId(ws[r]) \in DOMAIN clients
    /\ clients[ClientId(ws[r])] = r

\* ---------------------------------------------------------------------------
\* message_worker of connection r: "wait" (blocked in message_queue.get()),
\* "send" (in _send_to_client), "rm_iter" / "rm_del" (in _remove_client, called
\* at line 159 with no lock held), "done" (thread over)
\* ---------------------------------------------------------------------------
\* Queue.get(): the message taken from the queue (FIFO)
QueueGetLast(q) ==
    q[Len(q)]
QueueGet(q) ==
    Head(q)

\* line 80-82: message_queue.get(); None ends the thread
GetMessage(r) ==
    /\ dpc[r] = "wait"
    /\ message_queue[r] # <<>>
    /\ message_queue' = [message_queue EXCEPT ![r] = Tail(@)]
    /\ IF QueueGet(message_queue[r]) = Stop
       THEN /\ dpc' = [dpc EXCEPT ![r] = "done"]
            /\ UNCHANGED dmsg
       ELSE /\ dpc' = [dpc EXCEPT ![r] = "send"]
            /\ dmsg' = [dmsg EXCEPT ![r] = QueueGet(message_queue[r])]
    /\ UNCHANGED <<clients, event_handlers, client_lock, handler_lock, hnow, ws,
                   subscriptions, last_ping, hpc, h_op, rm_iter, bpc, b_call, spc,
                   s_time, issued, enqueued, written, bcasts, b_stable>>
    /\ UNCHANGED nonHubVars

\* line 155-156: client.ws.send succeeds
SendOk(r) ==
    /\ dpc[r] = "send"
    /\ written' = [written EXCEPT ![r] = Append(@, dmsg[r])]
    /\ dmsg' = [dmsg EXCEPT ![r] = Stop]
    /\ dpc' = [dpc EXCEPT ![r] = "wait"]
    /\ UNCHANGED <<clients, event_handlers, client_lock, handler_lock, hnow, ws,
                   subscriptions, last_ping, message_queue, hpc, h_op, rm_iter, bpc,
                   b_call, spc, s_time, issued, enqueued, bcasts, b_stable>>
    /\ UNCHANGED nonHubVars

\* line 157-159, 101-104: client.ws.send raises; _remove_client(client.id) is
\* called without a lock, finds the id in self.clients (or returns) and starts
\* to iterate over client.subscriptions
SendFail(r) ==
    /\ dpc[r] = "send"
    /\ dmsg' = [dmsg EXCEPT ![r] = Stop]
    /\ LET id == ClientId(ws[r]) IN
       IF id \in DOMAIN clients
       THEN /\ rm_iter' = [rm_iter EXCEPT ![r] =
                   [rec |-> clients[id],
                    size |-> Cardinality(subscriptions[clients[id]]),
                    seen |-> {}]]
            /\ dpc' = [dpc EXCEPT ![r] = "rm_iter"]
       ELSE /\ dpc' = [dpc EXCEPT ![r] = "wait"]
            /\ UNCHANGED rm_iter
    /\ UNCHANGED <<clients, event_handlers, client_lock, handler_lock, hnow, ws,
                   subscriptions, last_ping, message_queue, hpc, h_op, bpc, b_call,
                   spc, s_time, issued, enqueued, written, bcasts, b_stable>>
    /\ UNCHANGED nonHubVars

\* line 104-106: one round of `for event_type in client.subscriptions`: the
\* set iterator raises RuntimeError when the set changed size (caught at line
\* 84, the thread goes back to its loop), else the id is discarded from the
\* next event type, or the loop is over
RemoveNext(r) ==
    /\ dpc[r] = "rm_iter"
    /\ LET it == rm_iter[r]
           id == ClientId(ws[r])
           left == subscriptions[it.rec] \ it.seen
       IN
       IF Cardinality(subscriptions[it.rec]) # it.size
       THEN /\ dpc' = [dpc EXCEPT ![r] = "wait"]
            /\ rm_iter' = [rm_iter EXCEPT ![r] = NoIter]
            /\ UNCHANGED <<event_handlers, b_stable>>
       ELSE IF left # {}
            THEN \E e \in left :
                   /\ event_handlers' =
                          IF e \in DOMAIN event_handlers
                          THEN [event_handlers EXCEPT ![e] = @ \ {id}]
                          ELSE event_handlers
                   /\ rm_iter' = [rm_iter EXCEPT ![r].seen = @ \cup {e}]
                   /\ b_stable' = IF bpc # "idle" /\ b_call.event = e
                                  THEN b_stable \ {it.rec} ELSE b_stable
                   /\ UNCHANGED dpc
            ELSE /\ dpc' = [dpc EXCEPT ![r] = "rm_del"]
                 /\ rm_iter' = [rm_iter EXCEPT ![r] = NoIter]
                 /\ UNCHANGED <<event_handlers, b_stable>>
    /\ UNCHANGED <<clients, client_lock, handler_lock, hnow, ws, subscriptions,
                   last_ping, message_queue, hpc, h_op, dmsg, bpc, b_call, spc, s_time,
                   issued, enqueued, written, bcasts>>
    /\ UNCHANGED nonHubVars

\* line 107: `del self.clients[client_id]` (a KeyError is caught at line 84)
RemoveDel(r) ==
    /\ dpc[r] = "rm_del"
    /\ LET id == ClientId(ws[r]) IN
       IF id \in DOMAIN clients
       THEN /\ clients' = DictWithout(clients, id)
            /\ b_stable' = b_stable \ {clients[id]}
       ELSE UNCHANGED <<clients, b_stable>>
    /\ dpc' = [dpc EXCEPT ![r] = "wait"]
    /\ UNCHANGED <<event_handlers, client_lock, handler_lock, hnow, ws, subscriptions,
                   last_ping, message_queue, hpc, h_op, dmsg, rm_iter, bpc, b_call,
                   spc, s_time, issued, enqueued, written, bcasts>>
    /\ UNCHANGED nonHubVars

\* ---------------------------------------------------------------------------
\* broadcast_event: "idle", "iter" (in the for loop, _handler_lock held), "send"
\* (in send_to_client, waiting for _client_lock), "end" (leaving the with-block)
\* ---------------------------------------------------------------------------
\* line 132-142: the message is built, _handler_lock taken, the iteration over
\* self.event_handlers[event_type] starts
BroadcastCall(e, limit) ==
    /\ bpc = "idle"
    /\ bcasts < limit
    /\ handler_lock = Free
    /\ handler_lock' = Broadcaster
    /\ bcasts' = bcasts + 1
    /\ IF e \in DOMAIN event_handlers
       THEN /\ b_call' = [event |-> e, msg |-> bcasts + 1,
                          size |-> Cardinality(event_handlers[e]), seen |-> {},
                          to |-> None, result |-> "none"]
            /\ bpc' = "iter"
       ELSE /\ b_call' = [event |-> e, msg |-> bcasts + 1, size |-> 0, seen |-> {},
                          to |-> None, result |-> "ok"]
            /\ bpc' = "end"
    /\ b_stable' = {r \in Regs : /\ IsRegistered(r)
                                 /\ e \in subscriptions[r]
                                 /\ e \in DOMAIN event_handlers
                                 /\ ClientId(ws[r]) \in event_handlers[e]}
    /\ UNCHANGED <<clients, event_handlers, client_lock, hnow, ws, subscriptions,
                   last_ping, message_queue, hpc, h_op, dpc, dmsg, rm_iter, spc, s_time,
                   issued, enqueued, written>>
    /\ UNCHANGED nonHubVars

\* broadcast_event, called at most MaxBroadcasts times in one behaviour
BroadcastStart(e) ==
    BroadcastCall(e, MaxBroadcasts)

\* line 142: one round of `for client_id in self.event_handlers[event_type]`:
\* RuntimeError when the set changed size since the loop started (the
\* exception leaves broadcast_event), else the next client id, or the end
BroadcastNext ==
    /\ bpc = "iter"
    /\ LET left == event_handlers[b_call.event] \ b_call.seen IN
       IF Cardinality(event_handlers[b_call.event]) # b_call.size
       THEN /\ b_call' = [b_call EXCEPT !.result = "error"]
            /\ bpc' = "end"
       ELSE IF left # {}
            THEN \E id \in left :
                   /\ b_call' = [b_call EXCEPT !.seen = @ \cup {id}, !.to = id]
                   /\ bpc' = "send"
            ELSE /\ b_call' = [b_call EXCEPT !.result = "ok"]
                 /\ bpc' = "end"
    /\ UNCHANGED <<clients, event_handlers, client_lock, handler_lock, hnow, ws,
                   subscriptions, last_ping, message_queue, hpc, h_op, dpc, dmsg,
                   rm_iter, spc, s_time, issued, enqueued, written, bcasts, b_stable>>
    /\ UNCHANGED nonHubVars

\* line 148: `with self._client_lock` of send_to_client can be entered; the
\* lock is held by threads inside register, unregister, subscribe,
\* unsubscribe, _handle_ping and _check_client_health, never by a
\* message_worker (line 152-156: ws.send is called with no lock held)
CanTakeClientLockNoWrite ==
    client_lock = Free /\ \A r \in Regs : dpc[r] # "send"
CanTakeClientLock ==
    client_lock = Free

\* line 143, 146-150: send_to_client puts the message on the queue of the
\* client, under _client_lock, if the id is registered
SendToClient ==
    /\ bpc = "send"
    /\ CanTakeClientLock
    /\ IF b_call.to \in DOMAIN clients
       THEN LET q == clients[b_call.to] IN
            /\ message_queue' = [message_queue EXCEPT ![q] = Append(@, b_call.msg)]
            /\ enqueued' = [enqueued EXCEPT ![q] = Append(@, b_call.msg)]
       ELSE UNCHANGED <<message_queue, enqueued>>
    /\ b_call' = [b_call EXCEPT !.to = None]
    /\ bpc' = "iter"
    /\ UNCHANGED <<clients, event_handlers, client_lock, handler_lock, hnow, ws,
                   subscriptions, last_ping, hpc, h_op, dpc, dmsg, rm_iter, spc, s_time,
                   issued, written, bcasts, b_stable>>
    /\ UNCHANGED nonHubVars

\* line 140-143: the with-block is left, _handler_lock released
BroadcastEnd ==
    /\ bpc = "end"
    /\ handler_lock' = Free
    /\ b_call' = NoCall
    /\ b_stable' = {}
    /\ bpc' = "idle"
    /\ UNCHANGED <<clients, event_handlers, client_lock, hnow, ws, subscriptions,
                   last_ping, message_queue, hpc, h_op, dpc, dmsg, rm_iter, spc, s_time,
                   issued, enqueued, written, bcasts>>
    /\ UNCHANGED nonHubVars

\* ---------------------------------------------------------------------------
\* ping_worker / _check_client_health
\* ---------------------------------------------------------------------------
\* line 39, 47: a pass starts, current_time = datetime.utcnow()
SweepWake ==
    /\ spc = "sleep"
    /\ s_time' = hnow
    /\ spc' = "start"
    /\ UNCHANGED <<clients, event_handlers, client_lock, handler_lock, hnow, ws,
                   subscriptions, last_ping, message_queue, hpc, h_op, dpc, dmsg,
                   rm_iter, bpc, b_call, issued, enqueued, written, bcasts, b_stable>>
    /\ UNCHANGED nonHubVars

\* line 48-53: under _client_lock every client found timed out is removed
\* with _remove_client
CheckClientHealth ==
    /\ spc = "start"
    /\ client_lock = Free
    /\ LET out == {id \in DOMAIN clients : IsTimedOut(s_time, last_ping[clients[id]])} IN
       /\ event_handlers' =
              [e \in DOMAIN event_handlers |->
                  event_handlers[e] \ {id \in out : e \in subscriptions[clients[id]]}]
       /\ clients' = [id \in (DOMAIN clients) \ out |-> clients[id]]
       /\ b_stable' = b_stable \ {clients[id] : id \in out}
    /\ spc' = "sleep"
    /\ s_time' = 0
    /\ UNCHANGED <<client_lock, handler_lock, hnow, ws, subscriptions, last_ping,
                   message_queue, hpc, h_op, dpc, dmsg, rm_iter, bpc, b_call, issued,
                   enqueued, written, bcasts>>
    /\ UNCHANGED nonHubVars

\* datetime.utcnow() advances
HubTick ==
    /\ hnow < HubMaxTime
    /\ hnow' = hnow + 1
    /\ UNCHANGED <<clients, event_handlers, client_lock, handler_lock, ws,
                   subscriptions, last_ping, message_queue, hpc, h_op, dpc, dmsg,
                   rm_iter, bpc, b_call, spc, s_time, issued, enqueued, written, bcasts,
                   b_stable>>
    /\ UNCHANGED nonHubVars

\* datetime.utcnow() is a day later: no thread of the process ran for a day
\* (the host was suspended) or the wall clock was stepped
HubTickDay ==
    /\ hnow < DaySeconds
    /\ hnow' = hnow + DaySeconds
    /\ UNCHANGED <<clients, event_handlers, client_lock, handler_lock, ws,
                   subscriptions, last_ping, message_queue, hpc, h_op, dpc, dmsg,
                   rm_iter, bpc, b_call, spc, s_time, issued, enqueued, written, bcasts,
                   b_stable>>
    /\ UNCHANGED nonHubVars

NextHub ==
    \/ \E r \in Regs, a \in Addrs : RegisterClient(r, a)
    \/ \E r \in Regs, e \in EventTypes : SubscribeLock(r, "sub", e)
    \/ \E r \in Regs, e \in EventTypes : SubscribeLock(r, "unsub", e)
    \/ \E r \in Regs : Subscribe(r)
    \/ \E r \in Regs : Unsubscribe(r)
    \/ \E r \in Regs : HandlePing(r)
    \/ \E r \in Regs : UnregisterClient(r)
    \/ \E r \in Regs : GetMessage(r)
    \/ \E r \in Regs : SendOk(r)
    \/ \E r \in Regs : SendFail(r)
    \/ \E r \in Regs : RemoveNext(r)
    \/ \E r \in Regs : RemoveDel(r)
    \/ \E e \in EventTypes : BroadcastStart(e)
    \/ BroadcastNext
    \/ SendToClient
    \/ BroadcastEnd
    \/ SweepWake
    \/ CheckClientHealth
    \/ HubTick

\* ---------------------------------------------------------------------------
\* MetricsService (src/server/metrics_service.py): the cache of
\* get_system_metrics, its history and the cache cleanup thread
\* ---------------------------------------------------------------------------
\* bool(cached_data) at line 101: None and an empty dict are false
Truthy(v) ==
    v # NoData /\ v # Empty

\* `(now - cache_entry.timestamp).seconds <= cache_entry.ttl` (line 66)
IsFresh(ct, entry) ==
    Seconds(ct - entry.timestamp) <= entry.ttl

\* `(current_time - cache_entry.timestamp).seconds > cache_entry.ttl` (line 52)
IsExpired(ct, entry) ==
    Seconds(ct - entry.timestamp) > entry.ttl

\* MetricCache(data=data, timestamp=datetime.utcnow(), ttl=ttl or self.cache_ttl)
\* with ttl=None (no caller passes a ttl)
NewCacheEntry(data, ts) ==
    [data |-> data, timestamp |-> ts, ttl |-> cache_ttl]

\* datetime.isoformat(): the text of a clock value, and
\* datetime.fromisoformat() of such a text
IsoFormat(t) ==
    <<"iso", t>>
FromIsoFormat(text) ==
    text[2]

\* entry of _store_in_history
HistoryEntryEmpty(ts, data) ==
    [timestamp |-> IsoFormat(ts), data |-> Empty]
HistoryEntry(ts, data) ==
    [timestamp |-> IsoFormat(ts), data |-> data]

\* line 93-94: the last _history_max_size entries
TrimmedOldest(h) ==
    IF Len(h) > history_max_size
    THEN SubSeq(h, 1, history_max_size)
    ELSE h
Trimmed(h) ==
    IF Len(h) > history_max_size
    THEN SubSeq(h, Len(h) - history_max_size + 1, Len(h))
    ELSE h

\* start_time / end_time of get_metrics_history left at None
NoBound == 0 - 1

\* the keys of a dict after `d[k] = v`: a new key goes to the end, an existing
\* key keeps its place
OrderWith(order, k) ==
    IF \E i \in 1..Len(order) : order[i] = k THEN order ELSE Append(order, k)

\* a cache key outside the servers looked up, and a ttl that is not a number
BadKey == NumKeys + 1
BadTtl == 0 - 1

\* line 216, 229: the list returned is the list object of the series itself
\* when the key has a series and no bound is given (line 227 returns a new
\* list, and .get(key, []) of an unknown key a new empty list)
IsSeriesObject(k, start, end) ==
    k \in DOMAIN metric_history /\ start = NoBound /\ end = NoBound

\* line 91-94: list.append changes the list object in place, so a caller
\* holding that object sees the entry; the slice assigned when the series is
\* longer than _history_max_size is a new object, the one held stays as it is
HeldAfterAppend(h, k, entry) ==
    IF h.live /\ h.key = k
    THEN [h EXCEPT !.items = Append(@, entry),
                   !.live = Len(h.items) + 1 <= history_max_size]
    ELSE h

\* self._metric_history[key] of the defaultdict(list)
HistoryOf(k) ==
    IF k \in DOMAIN metric_history THEN metric_history[k] ELSE <<>>

NoHistCall == [key |-> 0, start |-> NoBound, end |-> NoBound, series |-> <<>>,
               result |-> <<>>]
NoHeld == [live |-> FALSE, key |-> 0, items |-> <<>>]
NoLookup == [op |-> "none", caller |-> 0, key |-> 0, data |-> NoData]
Lookup(op, c, k, v) == [op |-> op, caller |-> c, key |-> k, data |-> v]

CacheInit ==
    /\ mcache = <<>>
    /\ metric_history = <<>>
    /\ mnow = 0
    /\ lpc = [c \in Lookers |-> "idle"]
    /\ cache_key = [c \in Lookers |-> 0]
    /\ metrics = [c \in Lookers |-> NoData]
    /\ kpc = "sleep"
    /\ k_time = 0
    /\ lookups = 0
    /\ m_trail = NoLookup
    /\ appended = <<>>
    /\ cache_order = <<>>
    /\ hist_call = NoHistCall
    /\ held = NoHeld

\* line 99-102, 61-71: get_system_metrics(server k) looks the key up under
\* _cache_lock: a fresh entry gives its data, an entry that is not fresh is
\* deleted; the data is returned when it is true, else the commands are run
GetFromCache(c, k) ==
    /\ lpc[c] = "idle"
    /\ \A d \in Lookers : d < c => lpc[d] # "idle"
    /\ lookups < MaxLookups
    /\ lookups' = lookups + 1
    /\ LET present == k \in DOMAIN mcache
           fresh == present /\ IsFresh(mnow, mcache[k])
           cached_data == IF fresh THEN mcache[k].data ELSE NoData
       IN
       /\ mcache' = IF present /\ ~fresh THEN DictWithout(mcache, k) ELSE mcache
       /\ cache_order' = IF present /\ ~fresh THEN Without(cache_order, k) ELSE cache_order
       /\ IF Truthy(cached_data)
          THEN /\ m_trail' = Lookup("hit", c, k, cached_data)
               /\ UNCHANGED <<lpc, cache_key>>
          ELSE /\ m_trail' = Lookup("miss", c, k, NoData)
               /\ lpc' = [lpc EXCEPT ![c] = "produce"]
               /\ cache_key' = [cache_key EXCEPT ![c] = k]
    /\ UNCHANGED <<metric_history, mnow, metrics, kpc, k_time, appended>>
    /\ UNCHANGED nonCacheVars

\* line 104-119: the commands are run over SSH; metrics holds a value for
\* every command that ended with exit code 0 (none: the empty mapping)
Produce(c, v) ==
    /\ lpc[c] = "produce"
    /\ metrics' = [metrics EXCEPT ![c] = v]
    /\ lpc' = [lpc EXCEPT ![c] = "store_cache"]
    /\ m_trail' = Lookup("produced", c, cache_key[c], v)
    /\ UNCHANGED <<mcache, metric_history, mnow, cache_key, kpc, k_time, lookups,
                   appended, cache_order>>
    /\ UNCHANGED nonCacheVars

\* line 113: execute_command raises; with_error_handling re-raises to the caller
ProducerFailsCached(c) ==
    /\ lpc[c] = "produce"
    /\ lpc' = [lpc EXCEPT ![c] = "idle"]
    /\ cache_key' = [cache_key EXCEPT ![c] = 0]
    /\ m_trail' = Lookup("failed", c, cache_key[c], NoData)
    /\ mcache' = DictWith(mcache, cache_key[c], NewCacheEntry(Empty, mnow))
    /\ cache_order' = OrderWith(cache_order, cache_key[c])
    /\ UNCHANGED <<metric_history, mnow, metrics, kpc, k_time, lookups, appended>>
    /\ UNCHANGED nonCacheVars
ProducerFails(c) ==
    /\ lpc[c] = "produce"
    /\ lpc' = [lpc EXCEPT ![c] = "idle"]
    /\ cache_key' = [cache_key EXCEPT ![c] = 0]
    /\ m_trail' = Lookup("failed", c, cache_key[c], NoData)
    /\ UNCHANGED <<mcache, metric_history, mnow, metrics, kpc, k_time, lookups,
                   appended, cache_order>>
    /\ UNCHANGED nonCacheVars

\* line 121, 73-80: _store_in_cache under _cache_lock
StoreInCache(c) ==
    /\ lpc[c] = "store_cache"
    /\ mcache' = DictWith(mcache, cache_key[c], NewCacheEntry(metrics[c], mnow))
    /\ cache_order' = OrderWith(cache_order, cache_key[c])
    /\ lpc' = [lpc EXCEPT ![c] = "store_history"]
    /\ m_trail' = Lookup("cached", c, cache_key[c], metrics[c])
    /\ UNCHANGED <<metric_history, mnow, cache_key, metrics, kpc, k_time, lookups,
                   appended>>
    /\ UNCHANGED nonCacheVars

\* line 122-123, 82-94: _store_in_history under _collection_lock, then
\* `return metrics`
StoreInHistory(c) ==
    /\ UNCHANGED <<poolVars, hubVars, msgVars, hist_call, crossVars>>
    /\ held' = HeldAfterAppend(held, cache_key[c], HistoryEntry(mnow, metrics[c]))
    /\ lpc[c] = "store_history"
    /\ metric_history' =
           DictWith(metric_history, cache_key[c],
                    Trimmed(Append(HistoryOf(cache_key[c]),
                                   HistoryEntry(mnow, metrics[c]))))
    /\ m_trail' = Lookup("returned", c, cache_key[c], metrics[c])
    /\ lpc' = [lpc EXCEPT ![c] = "idle"]
    /\ cache_key' = [cache_key EXCEPT ![c] = 0]
    /\ metrics' = [metrics EXCEPT ![c] = NoData]
    /\ appended' = DictWith(appended, cache_key[c],
                            Append(IF cache_key[c] \in DOMAIN appended
                                   THEN appended[cache_key[c]] ELSE <<>>,
                                   HistoryEntry(mnow, metrics[c])))
    /\ UNCHANGED <<mcache, mnow, kpc, k_time, lookups, cache_order>>

\* line 40, 48: a pass of the cleanup thread starts, current_time = utcnow()
CleanupWake ==
    /\ kpc = "sleep"
    /\ k_time' = mnow
    /\ kpc' = "start"
    /\ UNCHANGED <<mcache, metric_history, mnow, lpc, cache_key, metrics, lookups,
                   m_trail, appended, cache_order>>
    /\ UNCHANGED nonCacheVars

\* line 49-54: under _cache_lock the keys are visited in dict order and every
\* entry found expired is deleted; the test of line 52 raises TypeError on an
\* entry whose ttl is not a number: nothing catches it in _cleanup_cache or in
\* cleanup_worker (line 38-41), so the pass stops there and the thread ends
CleanupCache ==
    /\ kpc = "start"
    /\ LET bad == {i \in 1..Len(cache_order) : mcache[cache_order[i]].ttl = BadTtl}
           stop == IF bad = {} THEN Len(cache_order) + 1
                   ELSE CHOOSE i \in bad : \A j \in bad : i <= j
           deleted == {cache_order[i] : i \in {j \in 1..(stop - 1) :
                           IsExpired(k_time, mcache[cache_order[j]])}}
       IN
       /\ mcache' = [k \in DOMAIN mcache \ deleted |-> mcache[k]]
       /\ cache_order' = SelectSeq(cache_order, LAMBDA k : k \notin deleted)
       /\ kpc' = IF bad = {} THEN "sleep" ELSE "dead"
    /\ k_time' = 0
    /\ UNCHANGED <<metric_history, mnow, lpc, cache_key, metrics, lookups, m_trail,
                   appended>>
    /\ UNCHANGED nonCacheVars

\* _store_in_cache(key, data, ttl) called with a ttl that is not a number
\* (`ttl or self.cache_ttl` keeps any true value)
StoreMalformed ==
    /\ BadKey \notin DOMAIN mcache
    /\ mcache' = DictWith(mcache, BadKey, [data |-> Empty, timestamp |-> mnow, ttl |-> BadTtl])
    /\ cache_order' = OrderWith(cache_order, BadKey)
    /\ UNCHANGED <<metric_history, mnow, lpc, cache_key, metrics, kpc, k_time, lookups,
                   m_trail, appended>>
    /\ UNCHANGED nonCacheVars

\* datetime.utcnow() advances
CacheTick ==
    /\ mnow % DaySeconds < CacheMaxTime
    /\ mnow' = mnow + 1
    /\ UNCHANGED <<mcache, metric_history, lpc, cache_key, metrics, kpc, k_time, lookups,
                   m_trail, appended, cache_order>>
    /\ UNCHANGED nonCacheVars

\* datetime.utcnow() is a day later
CacheTickDay ==
    /\ mnow < DaySeconds
    /\ mnow' = mnow + DaySeconds
    /\ UNCHANGED <<mcache, metric_history, lpc, cache_key, metrics, kpc, k_time, lookups,
                   m_trail, appended, cache_order>>
    /\ UNCHANGED nonCacheVars

\* what `self._cache.clear()` leaves
ClearedNothing(cache) ==
    cache
Cleared(cache) ==
    <<>>

\* line 231-235: clear_cache, under _cache_lock (m_trail.data: the number of
\* entries the cache held)
ClearCache ==
    /\ mcache' = Cleared(mcache)
    /\ cache_order' = SelectSeq(cache_order, LAMBDA k : k \in DOMAIN Cleared(mcache))
    /\ m_trail' = Lookup("cleared", 0, 0, Cardinality(DOMAIN mcache))
    /\ UNCHANGED <<metric_history, mnow, lpc, cache_key, metrics, kpc, k_time, lookups,
                   appended>>
    /\ UNCHANGED nonCacheVars

\* start_time / end_time of get_metrics_history: a clock value or None
Bounds == {NoBound} \cup (0..CacheMaxTime)

\* line 222-226: the entry is kept by the filter
KeptNoEnd(entry, start, end) ==
    ~(start # NoBound /\ FromIsoFormat(entry.timestamp) < start)
Kept(entry, start, end) ==
    /\ ~(start # NoBound /\ FromIsoFormat(entry.timestamp) < start)
    /\ ~(end # NoBound /\ FromIsoFormat(entry.timestamp) > end)

\* line 216-229: what get_metrics_history returns for the series h
RECURSIVE FilteredHistory(_, _, _)
FilteredHistory(h, start, end) ==
    IF h = <<>> THEN <<>>
    ELSE IF Kept(Head(h), start, end)
         THEN <<Head(h)>> \o FilteredHistory(Tail(h), start, end)
         ELSE FilteredHistory(Tail(h), start, end)

HistoryResult(h, start, end) ==
    IF start # NoBound \/ end # NoBound
    THEN FilteredHistory(h, start, end)
    ELSE h

\* line 204-229: get_metrics_history under _collection_lock;
\* self._metric_history.get(key, []) creates no series
GetHistory(k, start, end) ==
    /\ UNCHANGED <<poolVars, hubVars, msgVars, cacheVars, crossVars>>
    /\ hist_call' = [key |-> k, start |-> start, end |-> end,
                     series |-> HistoryOf(k),
                     result |-> HistoryResult(HistoryOf(k), start, end)]
    /\ held' = [live |-> IsSeriesObject(k, start, end), key |-> k,
                items |-> HistoryResult(HistoryOf(k), start, end)]

NextCache ==
    \/ \E c \in Lookers, k \in Keys : GetFromCache(c, k)
    \/ \E c \in Lookers, v \in Values : Produce(c, v)
    \/ \E c \in Lookers : ProducerFails(c)
    \/ \E c \in Lookers : StoreInCache(c)
    \/ \E c \in Lookers : StoreInHistory(c)
    \/ CleanupWake
    \/ CleanupCache
    \/ CacheTick
    \/ CacheTickDay
    \/ ClearCache

\* ---------------------------------------------------------------------------
\* The locks one thread takes and releases along get_system_metrics
\* (src/server/metrics_service.py 96-123), through execute_command
\* (src/server/ssh_service.py 169-181) and get_connection (57-92)
\* ---------------------------------------------------------------------------
\* the lock steps of the call, in program order; .fn tells whether the step
\* belongs to the producer (execute_command) or to the cache code
ProgramCacheHeld ==
    << [op |-> "acquire", lock |-> "cache",      fn |-> "metrics"],
       [op |-> "run",     lock |-> "none",       fn |-> "metrics"],
       [op |-> "acquire", lock |-> "pool",       fn |-> "ssh"],
       [op |-> "release", lock |-> "pool",       fn |-> "ssh"],
       [op |-> "run",     lock |-> "none",       fn |-> "ssh"],
       [op |-> "acquire", lock |-> "pool",       fn |-> "ssh"],
       [op |-> "release", lock |-> "pool",       fn |-> "ssh"],
       [op |-> "acquire", lock |-> "cache",      fn |-> "metrics"],
       [op |-> "release", lock |-> "cache",      fn |-> "metrics"],
       [op |-> "acquire", lock |-> "collection", fn |-> "metrics"],
       [op |-> "release", lock |-> "collection", fn |-> "metrics"] >>
Program ==
    << [op |-> "acquire", lock |-> "cache",      fn |-> "metrics"],  \* metrics 63
       [op |-> "release", lock |-> "cache",      fn |-> "metrics"],  \* metrics 63-71
       [op |-> "acquire", lock |-> "pool",       fn |-> "ssh"],      \* ssh 62
       [op |-> "release", lock |-> "pool",       fn |-> "ssh"],      \* ssh 62-77
       [op |-> "run",     lock |-> "none",       fn |-> "ssh"],      \* ssh 176-181
       [op |-> "acquire", lock |-> "pool",       fn |-> "ssh"],      \* ssh 80
       [op |-> "release", lock |-> "pool",       fn |-> "ssh"],      \* ssh 80-85
       [op |-> "acquire", lock |-> "cache",      fn |-> "metrics"],  \* metrics 75
       [op |-> "release", lock |-> "cache",      fn |-> "metrics"],  \* metrics 75-80
       [op |-> "acquire", lock |-> "collection", fn |-> "metrics"],  \* metrics 90
       [op |-> "release", lock |-> "collection", fn |-> "metrics"] >> \* metrics 90-94

\* where the call goes after step i: after the lookup a hit returns (0) and
\* a miss runs the commands; connect_func or the command may raise (0, the
\* with-block having released the lock); after a command comes the next
\* command or the stores
After(i) ==
    CASE i = 2 -> {0, 3}
      [] i = 4 -> {0, 5}
      [] i = 5 -> {0, 6}
      [] i = 7 -> {3, 8}
      [] i = Len(Program) -> {0}
      [] OTHER -> {i + 1}

CrossInit ==
    /\ cache_lock = Free
    /\ collection_lock = Free
    /\ xpc = [c \in Lookers |-> 0]

\* the lock variable named by a step
Holder(name) ==
    CASE name = "cache" -> cache_lock
      [] name = "collection" -> collection_lock
      [] name = "pool" -> lock
      [] OTHER -> Free

\* the other variables of the pool
poolRest == <<connections, now, pc, server_name, connection, next_conn, calls, rpc,
              current_time, popped, probe_failed, connect_calls,
              closed, reaped, add_order, last_pass, trail>>

\* the thread is inside a method of the hub
InHubCall(c) ==
    hpc[c] \in {"sub", "unsub", "ping_blocked"} \/ client_lock = c \/ handler_lock = c

\* line 96-99: thread c calls get_system_metrics
XStart(c) ==
    /\ UNCHANGED <<poolVars, hubVars, msgVars, cacheVars, histVars>>
    /\ xpc[c] = 0
    /\ ~InHubCall(c)
    /\ xpc' = [xpc EXCEPT ![c] = 1]
    /\ UNCHANGED <<cache_lock, collection_lock>>

\* thread c executes its next lock step: `with lock:` is entered when the
\* lock is free (threading.Lock), or left, or code runs with no lock change
XStep(c) ==
    /\ UNCHANGED <<hubVars, msgVars, cacheVars, histVars, poolRest>>
    /\ xpc[c] > 0
    /\ LET ins == Program[xpc[c]]
           new == IF ins.op = "acquire" THEN c ELSE Free
       IN
       /\ ins.op = "acquire" => Holder(ins.lock) = Free
       /\ cache_lock' = IF ins.lock = "cache" THEN new ELSE cache_lock
       /\ collection_lock' = IF ins.lock = "collection" THEN new ELSE collection_lock
       /\ lock' = IF ins.lock = "pool" THEN new ELSE lock
    /\ \E n \in After(xpc[c]) : xpc' = [xpc EXCEPT ![c] = n]

\* a method of the hub runs in thread r: the thread is not inside
\* get_system_metrics, and no method of the hub calls into the cache or
\* the pool
XHub(r) ==
    /\ xpc[r] = 0
    /\ \/ \E a \in Addrs : RegisterClient(r, a)
       \/ \E e \in EventTypes : SubscribeLock(r, "sub", e)
       \/ Subscribe(r)
       \/ UnregisterClient(r)

\* ---------------------------------------------------------------------------
\* Specifications: the pool, the hub and the metrics cache share no state and no lock
\* ---------------------------------------------------------------------------
Init == PoolInit /\ HubInit /\ CacheInit /\ CrossInit

SpecPool == Init /\ [][NextPool]_vars

SpecHub == Init /\ [][NextHub]_vars

\* The hub without the ping thread and with no unsubscribe or ping messages,
\* with MaxDeliveries broadcasts: the message path from broadcast_event to
\* the transport
NextDelivery ==
    \/ \E r \in Regs, a \in Addrs : RegisterClient(r, a)
    \/ \E r \in Regs, e \in EventTypes : SubscribeLock(r, "sub", e)
    \/ \E r \in Regs : Subscribe(r)
    \/ \E r \in Regs : UnregisterClient(r)
    \/ \E r \in Regs : GetMessage(r)
    \/ \E r \in Regs : SendOk(r)
    \/ \E r \in Regs : SendFail(r)
    \/ \E r \in Regs : RemoveNext(r)
    \/ \E r \in Regs : RemoveDel(r)
    \/ \E e \in EventTypes : BroadcastCall(e, MaxDeliveries)
    \/ BroadcastNext
    \/ SendToClient
    \/ BroadcastEnd

SpecDelivery == Init /\ [][NextDelivery]_vars

\* The registry and the ping thread, with a clock that can also advance by a
\* day: registrations, subscriptions, pings, disconnections and liveness sweeps
NextSweep ==
    \/ \E r \in Regs, a \in Addrs : RegisterClient(r, a)
    \/ \E r \in Regs, e \in EventTypes : SubscribeLock(r, "sub", e)
    \/ \E r \in Regs : Subscribe(r)
    \/ \E r \in Regs : HandlePing(r)
    \/ \E r \in Regs : UnregisterClient(r)
    \/ SweepWake
    \/ CheckClientHealth
    \/ HubTick
    \/ HubTickDay

SpecSweep == Init /\ [][NextSweep]_vars

\* The connection handlers alone: every kind of client message, and the end
\* of the connection
NextMsg ==
    \/ \E r \in Regs, a \in Addrs : RegisterClient(r, a)
    \/ \E r \in Regs, e \in EventTypes : SubscribeLock(r, "sub", e)
    \/ \E r \in Regs, e \in EventTypes : SubscribeLock(r, "unsub", e)
    \/ \E r \in Regs : Subscribe(r)
    \/ \E r \in Regs : Unsubscribe(r)
    \/ \E r \in Regs : HandlePing(r)
    \/ \E r \in Regs, kind \in MalformedKinds : HandleClientMessage(r, kind)
    \/ \E r \in Regs : UnregisterClient(r)
    \/ \E r \in Regs : GetMessage(r)

\* The hub when the transport of the first client stalls (its ws.send never
\* returns) and the transports of the other clients work (their ws.send
\* returns without an exception), the threads of the working clients being
\* scheduled fairly
Stalled == 1
Working == Regs \ {Stalled}

NextStall ==
    \/ \E r \in Regs, a \in Addrs : RegisterClient(r, a)
    \/ \E r \in Regs, e \in EventTypes : SubscribeLock(r, "sub", e)
    \/ \E r \in Regs, e \in EventTypes : SubscribeLock(r, "unsub", e)
    \/ \E r \in Regs : Subscribe(r)
    \/ \E r \in Regs : Unsubscribe(r)
    \/ \E r \in Regs : UnregisterClient(r)
    \/ \E r \in Regs : GetMessage(r)
    \/ \E r \in Working : SendOk(r)
    \/ \E e \in EventTypes : BroadcastStart(e)
    \/ BroadcastNext
    \/ SendToClient
    \/ BroadcastEnd

SpecStall ==
    /\ Init
    /\ [][NextStall]_vars
    /\ \A r \in Working : WF_vars(GetMessage(r)) /\ WF_vars(SendOk(r))

\* The message path when no write to a transport fails (every ws.send
\* returns), the message threads being scheduled fairly
NextDrain ==
    \/ \E r \in Regs, a \in Addrs : RegisterClient(r, a)
    \/ \E r \in Regs, e \in EventTypes : SubscribeLock(r, "sub", e)
    \/ \E r \in Regs : Subscribe(r)
    \/ \E r \in Regs : UnregisterClient(r)
    \/ \E r \in Regs : GetMessage(r)
    \/ \E r \in Regs : SendOk(r)
    \/ \E e \in EventTypes : BroadcastCall(e, MaxDeliveries)
    \/ BroadcastNext
    \/ SendToClient
    \/ BroadcastEnd

SpecDrain ==
    /\ Init
    /\ [][NextDrain]_vars
    /\ \A r \in Regs : WF_vars(GetMessage(r)) /\ WF_vars(SendOk(r))

SpecMsg == Init /\ [][NextMsg]_vars

SpecCache == Init /\ [][NextCache]_vars

\* The history store: lookups that fill the series, the clock, and one
\* get_metrics_history call, made at any moment
NextHistory ==
    \/ \E c \in Lookers, k \in Keys : GetFromCache(c, k)
    \/ \E c \in Lookers, v \in Values : Produce(c, v)
    \/ \E c \in Lookers : StoreInCache(c)
    \/ \E c \in Lookers : StoreInHistory(c)
    \/ CacheTick
    \/ /\ hist_call = NoHistCall
       /\ \E k \in Keys, start \in Bounds, end \in Bounds : GetHistory(k, start, end)

SpecHistory == Init /\ [][NextHistory]_vars

\* The cache with an entry whose ttl is not a number, and the cleanup thread
NextMalformed ==
    \/ \E c \in Lookers, k \in Keys : GetFromCache(c, k)
    \/ \E c \in Lookers, v \in Values : Produce(c, v)
    \/ \E c \in Lookers : StoreInCache(c)
    \/ \E c \in Lookers : StoreInHistory(c)
    \/ StoreMalformed
    \/ CleanupWake
    \/ CleanupCache
    \/ CacheTick

SpecMalformed == Init /\ [][NextMalformed]_vars

\* Threads that call get_system_metrics and methods of the hub, and a
\* broadcaster
NextCross ==
    \/ \E c \in Lookers : XStart(c)
    \/ \E c \in Lookers : XStep(c)
    \/ \E r \in Regs : XHub(r)
    \/ \E e \in EventTypes : BroadcastStart(e)
    \/ BroadcastNext
    \/ SendToClient
    \/ BroadcastEnd

SpecCross == Init /\ [][NextCross]_vars

\* ---------------------------------------------------------------------------
\* Properties of the connection pool
\* ---------------------------------------------------------------------------
\* number of idle-list entries of `conns` that hold client k
Occurrences(conns, k) ==
    Cardinality({<<t, i>> \in (DOMAIN conns) \X (1..MaxCalls) :
                    i <= Len(conns[t]) /\ conns[t][i].client = k})

\* clients in the idle lists of `conns`
ClientsOf(conns) ==
    UNION {{conns[t][i].client : i \in 1..Len(conns[t])} : t \in DOMAIN conns}

\* C1: in every reachable state, the idle list of every server holds at most
\* max_connections clients.
C1_IdleBounded ==
    \A t \in DOMAIN connections : Len(connections[t]) <= max_connections

\* a normal return found the idle list full and closed its client
C1_Witness ==
    /\ trail.op = "release_full"
    /\ \E t \in DOMAIN connections : Len(connections[t]) = max_connections

\* C2: a client held by a caller (popped and being probed, or yielded and in
\* use) is held by no other caller and is in no idle list.
C2_ExclusiveLease ==
    \A c \in Callers :
        (pc[c] \in {"probe", "using"}) =>
            /\ connection[c] \notin AllIdleClients
            /\ \A d \in Callers \ {c} :
                   (pc[d] \in {"probe", "using"}) => connection[d] # connection[c]

\* two callers use clients at the same time, one of them taken from the pool
C2_Witness ==
    \E c \in Callers, d \in Callers :
        /\ c # d
        /\ pc[c] = "using" /\ pc[d] = "using"
        /\ popped[c] # None /\ connection[c] = popped[c]

\* C3: when a lease ends (normal return or exception in the with-body), the
\* yielded client is either in an idle list exactly once and not closed, or in
\* no idle list and closed exactly once.
C3_ReleaseOnce ==
    [][\A c \in Callers :
          (pc[c] = "using" /\ pc'[c] = "idle") =>
              LET k == connection[c] IN
              \/ /\ Occurrences(connections', k) = 1
                 /\ closed'[k] = closed[k]
                 /\ closed[k] = 0
              \/ /\ Occurrences(connections', k) = 0
                 /\ closed'[k] = closed[k] + 1
                 /\ closed[k] = 0]_vars

\* a with-body raised and its client was closed
C3_Witness ==
    /\ trail.op = "body_raised"
    /\ \E k \in ConnIds : closed[k] = 1 /\ k \notin AllIdleClients

\* C4: an acquire for server T that directly follows a lease of T and its
\* normal return (nothing else happened on the pool in between) pops the client
\* of that lease, and when its probe succeeds yields that client without
\* calling connect_func; every pop takes the client added to the list last.
C4_ReuseMostRecent ==
    [][\A c \in Callers :
          /\ (pc[c] = "idle" /\ pc'[c] # "idle") =>
                /\ (trail.op = "lease_release" /\ trail.t = server_name'[c]) =>
                       (pc'[c] = "probe" /\ connection'[c] = trail.conn)
                /\ HasIdle(server_name'[c]) =>
                       /\ pc'[c] = "probe"
                       /\ connection'[c] =
                              add_order[server_name'[c]][Len(add_order[server_name'[c]])]
          /\ (pc[c] = "probe" /\ pc'[c] = "using") =>
                /\ connection'[c] = connection[c]
                /\ connect_calls'[c] = 0
                /\ next_conn' = next_conn]_vars

\* a caller uses the very client that the lease before it returned
C4_Witness ==
    /\ trail.op = "acquire"
    /\ trail.conn # None
    /\ pc[trail.caller] = "using"
    /\ connection[trail.caller] = trail.conn
    /\ connect_calls[trail.caller] = 0

\* C5: once the probe of the popped client has failed, the call never yields
\* that client: it goes on to connect_func, and what it yields is the client
\* connect_func has just created.
C5_DeadNeverYielded ==
    /\ [](\A c \in Callers :
            probe_failed[c] =>
                \/ pc[c] = "connect" /\ connection[c] = None
                \/ /\ pc[c] = "using"
                   /\ connection[c] # popped[c]
                   /\ connect_calls[c] = 1)
    /\ [][\A c \in Callers :
            (probe_failed'[c] /\ pc'[c] = "using" /\ pc[c] # "using") =>
                /\ pc[c] = "connect"
                /\ connection'[c] = next_conn
                /\ next_conn' = next_conn + 1]_vars

\* a caller uses a new client after the popped one failed its probe
C5_Witness ==
    \E c \in Callers :
        /\ pc[c] = "using"
        /\ probe_failed[c]
        /\ popped[c] # None
        /\ connection[c] # popped[c]

\* C6: a cleanup pass with clock value current_time closes exactly once and
\* removes every idle client with current_time - last_used > max_idle_time,
\* keeps every other idle client in its list, unclosed; a client closed by a
\* pass is in no idle list and is never held by a caller afterwards.
C6_ReaperExact ==
    /\ [][(rpc = "start" /\ rpc' = "sleep") =>
            \A t \in DOMAIN connections : \A i \in 1..Len(connections[t]) :
                LET e == connections[t][i] IN
                IF current_time - e.last_used > max_idle_time
                THEN /\ closed[e.client] = 0
                     /\ closed'[e.client] = 1
                     /\ e.client \notin ClientsOf(connections')
                ELSE /\ closed'[e.client] = 0
                     /\ t \in DOMAIN connections'
                     /\ \E j \in 1..Len(connections'[t]) : connections'[t][j] = e
                     /\ Occurrences(connections', e.client) = 1]_vars
    /\ [](\A k \in reaped :
            /\ k \notin AllIdleClients
            /\ closed[k] = 1
            /\ \A c \in Callers : connection[c] # k)

\* a pass has just closed one client and kept another
C6_Witness ==
    /\ trail.op = "reap"
    /\ reaped # {}
    /\ AllIdleClients # {}

\* C7: when connect_func raises, it was called once in that call, the call
\* ends without yielding, the lock is free, the idle lists are unchanged and
\* nothing was closed.
C7_ConnectFailure ==
    [][\A c \in Callers :
          (pc[c] = "connect" /\ pc'[c] # "connect") =>
              \/ /\ pc'[c] = "using"
                 /\ connect_calls'[c] = 1
              \/ /\ pc'[c] = "idle"
                 /\ connect_calls[c] = 0
                 /\ trail'.op = "connect_failed"
                 /\ lock' = Free
                 /\ connections' = connections
                 /\ closed' = closed
                 /\ next_conn' = next_conn]_vars

\* connect_func has just raised after a failed probe; the lock is free
C7_Witness ==
    /\ trail.op = "connect_failed"
    /\ lock = Free
    /\ \A c \in Callers : pc[c] # "using"

\* ---------------------------------------------------------------------------
\* Properties of the event hub
\* ---------------------------------------------------------------------------
\* no thread is inside a critical section or inside _remove_client
HubQuiet ==
    /\ client_lock = Free
    /\ handler_lock = Free
    /\ \A r \in Regs : dpc[r] \notin {"rm_iter", "rm_del"}

\* C8: the event index and the clients' own subscription sets agree: a client
\* id is in the subscriber set of event type e if and only if the id is in the
\* registry and e is in the subscription set of that client. Stated for the
\* states in which no removal or subscription change is in progress.
C8_IndexAgrees ==
    HubQuiet =>
        \A e \in EventTypes, id \in {ClientId(a) : a \in Addrs} :
            (e \in DOMAIN event_handlers /\ id \in event_handlers[e])
                <=> (id \in DOMAIN clients /\ e \in subscriptions[clients[id]])

\* C9: every register_client call returns an id different from the id
\* returned by every earlier register_client call, whether that earlier
\* client is still registered or not.
C9_IdsNeverReused ==
    \A i, j \in DOMAIN issued : i < j => issued[i] # issued[j]

\* C10: when broadcast_event is over, every client that was registered and
\* subscribed to the event type during the whole broadcast has exactly one
\* copy of the message on its queue, and a client not subscribed to the event
\* type has none.
C10_BroadcastDelivers ==
    bpc = "end" =>
        /\ \A r \in b_stable : CountOf(b_call.msg, enqueued[r]) = 1
        /\ \A r \in Regs :
               (ws[r] # None /\ b_call.event \notin subscriptions[r])
                   => CountOf(b_call.msg, enqueued[r]) = 0

\* C11: for every client the messages are written to the transport in the
\* order they were put on its queue: if A is written before B, A was enqueued
\* before B.
C11_FifoOrder ==
    \A r \in Regs :
        \A i, j \in DOMAIN written[r] :
            i < j => \E a, b \in DOMAIN enqueued[r] :
                        /\ a < b
                        /\ enqueued[r][a] = written[r][i]
                        /\ enqueued[r][b] = written[r][j]

\* two broadcasts were enqueued for one client and both were written
C11_Witness ==
    \E r \in Regs :
        /\ Len(written[r]) = 2
        /\ written[r][1] # written[r][2]

\* C12: once unregister_client is over for a connection, nothing more is put
\* on the queue of its client, and everything written to its transport was
\* put on the queue before.
C12_NoDeliveryAfterUnregister ==
    /\ [][\A r \in Regs : hpc[r] = "closed" => enqueued'[r] = enqueued[r]]_vars
    /\ [](\A r \in Regs : \A i \in DOMAIN written[r] :
              \E a \in DOMAIN enqueued[r] : enqueued[r][a] = written[r][i])

\* send_to_client is about to run for the id of a client that was
\* unregistered while the broadcast was iterating
C12_Witness ==
    \E r \in Regs :
        /\ hpc[r] = "closed"
        /\ bpc = "send"
        /\ b_call.to = ClientId(ws[r])
        /\ b_call.to \notin DOMAIN clients
        /\ b_call.event \in subscriptions[r]

\* C13: a liveness sweep that read the clock at s_time removes every
\* registered client with s_time - last_ping > 2 * ping_interval, whatever the
\* elapsed duration (a day or more included), removes no client with
\* s_time - last_ping <= 2 * ping_interval, and a removed client is in no
\* subscriber set afterwards. Stated for the clients whose last_ping is not
\* later than the clock value of the sweep.
C13_SweepExact ==
    [][(spc = "start" /\ spc' = "sleep") =>
          \A id \in DOMAIN clients :
              s_time >= last_ping[clients[id]] =>
                  /\ (id \notin DOMAIN clients')
                         <=> (s_time - last_ping[clients[id]] > PingTimeout)
                  /\ (id \notin DOMAIN clients')
                         => \A e \in DOMAIN event_handlers' : id \notin event_handlers'[e]
      ]_vars

\* C14: handling a ping of a registered client completes: the handler is
\* never left inside _handle_ping waiting for a lock that its own thread
\* holds (a state no step of any thread can end), and when it is back in its
\* receive loop it holds no hub lock.
C14_PingCompletes ==
    \A r \in Regs :
        /\ ~(hpc[r] = "ping_blocked" /\ client_lock = r)
        /\ hpc[r] = "open" => (client_lock # r /\ handler_lock # r)

\* C15: a malformed client message (not JSON, JSON that is not an object, an
\* object with an unrecognized type) is dropped: handle_client_message
\* returns without raising, the registry, the event index and the queues are
\* unchanged, and the connection loop of the client goes on.
C15_MalformedDropped ==
    /\ [][last_msg' # last_msg =>
            /\ last_msg'.outcome = "dropped"
            /\ hpc' = hpc
            /\ clients' = clients
            /\ event_handlers' = event_handlers
            /\ message_queue' = message_queue]_vars
    /\ [](\A r \in Regs : hpc[r] # "raised")

\* ---------------------------------------------------------------------------
\* Properties of the metrics cache
\* ---------------------------------------------------------------------------
\* the step is the cache lookup of a get_system_metrics call of c for key k
IsLookupStep(c, k) ==
    /\ lookups' = lookups + 1
    /\ m_trail'.caller = c
    /\ m_trail'.key = k

\* age of the cache entry of key k at the clock value of the lookup
AgeOf(k) ==
    mnow - mcache[k].timestamp

\* C18: a lookup never invokes the producer when an entry that is not expired
\* (now - producedAt <= ttl) exists for the key, and returns the stored value
\* of that entry, whatever the value (an empty mapping included).
C18_HitSkipsProducer ==
    [][\A c \in Lookers, k \in Keys :
          (IsLookupStep(c, k) /\ k \in DOMAIN mcache /\ AgeOf(k) <= mcache[k].ttl)
              => /\ m_trail'.op = "hit"
                 /\ m_trail'.data = mcache[k].data
                 /\ lpc'[c] = "idle"]_vars

\* C19: a lookup at time now treats the entry of its key as expired (deletes
\* it and goes on to the producer) exactly when now - producedAt > ttl, for
\* every age (a day or more included).
C19_ExpiryExact ==
    [][\A c \in Lookers, k \in Keys :
          (IsLookupStep(c, k) /\ k \in DOMAIN mcache)
              => /\ (k \notin DOMAIN mcache') <=> (AgeOf(k) > mcache[k].ttl)
                 /\ Truthy(mcache[k].data)
                        => ((lpc'[c] = "produce") <=> (AgeOf(k) > mcache[k].ttl))]_vars

\* C20: a lookup that missed and whose producer gave a value stores one cache
\* entry for its key with that value and the current time, leaving the other
\* keys alone; then appends one entry with the same value and the current
\* time at the end of the history series of the key (the older entries keep
\* their order, the oldest are dropped at the cap) and returns the value; a
\* lookup served from the cache changes neither the cache nor any history.
C20_MissStoresOnce ==
    [][\A c \in Lookers :
          LET k == cache_key[c]
              h == HistoryOf(k)
          IN
          /\ (lpc[c] = "store_cache" /\ lpc'[c] = "store_history")
                 => /\ DOMAIN mcache' = DOMAIN mcache \cup {k}
                    /\ mcache'[k].data = metrics[c]
                    /\ mcache'[k].timestamp = mnow
                    /\ \A x \in DOMAIN mcache \ {k} : mcache'[x] = mcache[x]
                    /\ metric_history' = metric_history
          /\ (lpc[c] = "store_history" /\ lpc'[c] = "idle")
                 => /\ k \in DOMAIN metric_history'
                    /\ LET g == metric_history'[k] IN
                       /\ Len(g) = IF Len(h) < history_max_size
                                   THEN Len(h) + 1 ELSE history_max_size
                       /\ g[Len(g)] = [timestamp |-> IsoFormat(mnow), data |-> metrics[c]]
                       /\ \A i \in 1..(Len(g) - 1) : g[i] = h[Len(h) - (Len(g) - 1) + i]
                    /\ \A x \in DOMAIN metric_history \ {k} :
                           metric_history'[x] = metric_history[x]
                    /\ mcache' = mcache
                    /\ m_trail' = Lookup("returned", c, k, metrics[c])
          /\ (lookups' = lookups + 1 /\ m_trail'.op = "hit" /\ m_trail'.caller = c)
                 => /\ metric_history' = metric_history
                    /\ mcache' = mcache
      ]_vars

\* a lookup that missed has stored and returned a non-empty value, at the
\* history cap
C20_Witness ==
    /\ m_trail.op = "returned"
    /\ Truthy(m_trail.data)
    /\ m_trail.key \in DOMAIN mcache
    /\ mcache[m_trail.key].data = m_trail.data
    /\ Len(HistoryOf(m_trail.key)) = history_max_size

\* C17: when a write to the transport of a client fails, the removal that
\* follows in its message thread ends with the client out of the registry and
\* out of every subscriber set.
C17_WriteFailureRemoves ==
    [][\A r \in Regs :
          (/\ dpc[r] \in {"send", "rm_iter", "rm_del"}
           /\ dpc'[r] = "wait"
           /\ written'[r] = written[r])
              => /\ ClientId(ws[r]) \notin DOMAIN clients'
                 /\ \A e \in DOMAIN event_handlers' :
                        ClientId(ws[r]) \notin event_handlers'[e]]_vars

\* the messages of a sequence
Elems(q) ==
    {q[i] : i \in DOMAIN q}

C21_FailureStoresNothing ==
    [][\A c \in Lookers :
          /\ (lpc[c] = "produce" /\ lpc'[c] = "idle")
                 => /\ m_trail' = Lookup("failed", c, cache_key[c], NoData)
                    /\ mcache' = mcache
                    /\ metric_history' = metric_history
                    /\ appended' = appended
          /\ \A k \in Keys :
                 (/\ m_trail.op = "failed"
                  /\ m_trail.key = k
                  /\ IsLookupStep(c, k)
                  /\ (k \in DOMAIN mcache => ~Truthy(mcache[k].data)))
                     => /\ lpc'[c] = "produce"
                        /\ m_trail'.op = "miss"
      ]_vars

\* a producer failure has just reached its caller, and the key has neither a
\* cache entry nor a history series
C21_Witness ==
    /\ m_trail.op = "failed"
    /\ m_trail.key \notin DOMAIN mcache
    /\ HistoryOf(m_trail.key) = <<>>
    /\ lpc[m_trail.caller] = "idle"

\* the last n entries of a sequence
LastN(q, n) ==
    IF Len(q) <= n THEN q ELSE SubSeq(q, Len(q) - n + 1, Len(q))

\* C22: in every reachable state every history series holds at most
\* history_max_size entries and is exactly the most recent
\* min(n, history_max_size) of the n entries appended to its key, in append
\* order, with concurrent appenders.
C22_HistoryIsRecentWindow ==
    /\ DOMAIN metric_history = DOMAIN appended
    /\ \A k \in DOMAIN metric_history :
           /\ Len(metric_history[k]) <= history_max_size
           /\ metric_history[k] = LastN(appended[k], history_max_size)

\* more entries than the cap were appended to a key, the evicted one differing
\* from the newest
C22_Witness ==
    \E k \in DOMAIN appended :
        /\ Len(appended[k]) > history_max_size
        /\ appended[k][1] # appended[k][Len(appended[k])]
        /\ Len(metric_history[k]) = history_max_size

\* C24: clear_cache removes every cache entry and leaves every history series
\* as it was (same keys, same entries, same order); the lookup of any key that
\* follows it invokes the producer.
C24_ClearEmptiesCacheOnly ==
    [][/\ m_trail'.op = "cleared"
           => /\ DOMAIN mcache' = {}
              /\ metric_history' = metric_history
       /\ \A c \in Lookers, k \in Keys :
              (m_trail.op = "cleared" /\ IsLookupStep(c, k))
                  => /\ lpc'[c] = "produce"
                     /\ m_trail'.op = "miss"
      ]_vars

\* clear_cache has just removed at least one entry while a history series
\* exists
C24_Witness ==
    /\ m_trail.op = "cleared"
    /\ m_trail.data > 0
    /\ DOMAIN mcache = {}
    /\ \E k \in DOMAIN metric_history : metric_history[k] # <<>>

\* C25: there is no single-flight deduplication. A lookup that finds no entry
\* for its key goes to the producer also while another caller is producing or
\* storing for the same key; each caller's store replaces the entry of the key
\* by its own value (the last write is the one left), and each caller appends
\* its own entry to the history of the key.
C25_NoSingleFlight ==
    [][\A c \in Lookers :
          LET k == cache_key[c] IN
          /\ \A d \in Lookers \ {c}, x \in Keys :
                 (/\ IsLookupStep(c, x)
                  /\ x \notin DOMAIN mcache
                  /\ cache_key[d] = x
                  /\ lpc[d] \in {"produce", "store_cache", "store_history"})
                     => lpc'[c] = "produce"
          /\ (lpc[c] = "store_cache" /\ lpc'[c] = "store_history" /\ k \in DOMAIN mcache)
                 => mcache'[k] = NewCacheEntry(metrics[c], mnow)
          /\ (lpc[c] = "store_history" /\ lpc'[c] = "idle")
                 => /\ k \in DOMAIN appended'
                    /\ Len(appended'[k]) =
                           (IF k \in DOMAIN appended THEN Len(appended[k]) ELSE 0) + 1
                    /\ appended'[k][Len(appended'[k])].data = metrics[c]
      ]_vars

\* two lookups of one key overlapped with no time passing: both produced (two
\* different values were appended), and the cache holds the value of the
\* caller that stored last although it appended first
C25_Witness ==
    \E k \in DOMAIN appended :
        /\ mnow = 0
        /\ lookups = 2
        /\ \A c \in Lookers : lpc[c] = "idle"
        /\ Len(appended[k]) = 2
        /\ Truthy(appended[k][1].data)
        /\ Truthy(appended[k][2].data)
        /\ appended[k][1].data # appended[k][2].data
        /\ k \in DOMAIN mcache
        /\ mcache[k].data = appended[k][1].data

\* the entry lies within [start, end], an omitted bound not constraining
InRange(entry, start, end) ==
    \E t \in 0..CacheMaxTime :
        /\ entry.timestamp = IsoFormat(t)
        /\ start # NoBound => start <= t
        /\ end # NoBound => t <= end

\* C23: get_metrics_history(key, start, end) returns, in stored order, exactly
\* the entries of the series of the key whose timestamp t has
\* start <= t <= end, an omitted bound imposing nothing and an entry at a
\* bound being included; a key without a series gives the empty list, and no
\* call creates or changes a series.
C23_HistoryWindow ==
    [][hist_call' # hist_call =>
          LET call == hist_call'
              h == HistoryOf(call.key)
              idx == {i \in 1..Len(h) : InRange(h[i], call.start, call.end)}
              Nth(j) == CHOOSE i \in idx : Cardinality({m \in idx : m <= i}) = j
          IN
          /\ call.series = h
          /\ Len(call.result) = Cardinality(idx)
          /\ \A j \in 1..Len(call.result) : call.result[j] = h[Nth(j)]
          /\ call.key \notin DOMAIN metric_history => call.result = <<>>
          /\ metric_history' = metric_history
      ]_vars

\* a call with both bounds given, both equal to the timestamp of a stored
\* entry, has returned that entry and left out another one
C23_Witness ==
    /\ hist_call.start # NoBound
    /\ hist_call.end = hist_call.start
    /\ Len(hist_call.series) = 2
    /\ Len(hist_call.result) = 1
    /\ hist_call.result[1].timestamp = IsoFormat(hist_call.start)
    /\ hist_call.result[1] = hist_call.series[2]

\* C29: after unregister_client(id) on a registered id, the id is out of the
\* registry and out of the subscriber set of every event type, and the
\* shutdown signal is on the queue of that client; on an id that is not
\* registered the call changes nothing.
C29_UnregisterRemoves ==
    [][\A r \in Regs :
          (hpc[r] # "closed" /\ hpc'[r] = "closed") =>
              LET id == ClientId(ws[r]) IN
              IF id \in DOMAIN clients
              THEN /\ id \notin DOMAIN clients'
                   /\ \A e \in DOMAIN event_handlers' : id \notin event_handlers'[e]
                   /\ message_queue'[clients[id]] = Append(message_queue[clients[id]], Stop)
              ELSE /\ clients' = clients
                   /\ event_handlers' = event_handlers
                   /\ message_queue' = message_queue
                   /\ subscriptions' = subscriptions
      ]_vars

\* a subscribed client has been unregistered and the shutdown signal was put
\* on its queue
C29_Witness ==
    \E r \in Regs :
        /\ hpc[r] = "closed"
        /\ subscriptions[r] # {}
        /\ Stop \in Elems(enqueued[r])
        /\ ClientId(ws[r]) \notin DOMAIN clients

\* C26: the operations that need both _client_lock and _handler_lock take them
\* in one order, so no state is reached in which a thread inside subscribe or
\* unsubscribe holds _client_lock and waits for _handler_lock while
\* broadcast_event holds _handler_lock and waits, in send_to_client, for
\* _client_lock.
C26_NoLockCycle ==
    ~(\E r \in Regs :
          /\ hpc[r] \in {"sub", "unsub"}
          /\ client_lock = r
          /\ handler_lock = Broadcaster
          /\ bpc = "send")

\* C27: the registry is read and written only with _client_lock held and the
\* event index only with _handler_lock held, so no step changes a subscriber
\* set while broadcast_event, holding _handler_lock, iterates over it, and no
\* step changes the registry while another thread holds _client_lock.
C27_LockedAccess ==
    [][/\ (handler_lock = Broadcaster /\ handler_lock' = Broadcaster)
              => event_handlers' = event_handlers
       /\ (client_lock # Free /\ client_lock' = client_lock)
              => clients' = clients
      ]_vars

\* C30: the message_worker of a client ends after the client is removed, on
\* every removal path; when nothing is in progress and every queue is empty,
\* the number of message_worker threads still running equals the number of
\* registered clients.
C30_WorkersMatchRegistry ==
    (/\ HubQuiet
     /\ bpc = "idle"
     /\ \A r \in Regs : message_queue[r] = <<>> /\ dpc[r] \in {"wait", "done"})
        => Cardinality({r \in Regs : dpc[r] = "wait"}) = Cardinality(DOMAIN clients)

\* C28: when the probe of a popped idle connection fails, get_connection
\* closes that connection before creating the replacement, so a connection
\* that failed its probe is closed whenever its caller has gone on to connect.
C28_DeadIsClosed ==
    \A c \in Callers :
        (probe_failed[c] /\ popped[c] # None /\ pc[c] = "connect")
            => closed[popped[c]] >= 1

\* C33: when close() of one idle client raises during a cleanup pass, the
\* pass still handles every other idle client of every server: each client
\* past max_idle_time has close() called on it and is out of the idle lists
\* (the one whose close() raised too), each other client stays, and the lock
\* is free when the pass is over.
C33_CloseFailureIsolated ==
    [][(rpc = "start" /\ rpc' = "sleep") =>
          /\ last_pass'.failed \subseteq last_pass'.expired
          /\ \A t \in DOMAIN connections : \A i \in 1..Len(connections[t]) :
                 LET e == connections[t][i] IN
                 IF current_time - e.last_used > max_idle_time
                 THEN /\ e.client \in last_pass'.expired
                      /\ closed'[e.client] = closed[e.client] + 1
                      /\ e.client \notin ClientsOf(connections')
                 ELSE /\ e.client \in ClientsOf(connections')
                      /\ closed'[e.client] = closed[e.client]
          /\ \A t \in DOMAIN connections' : connections'[t] # <<>>
          /\ lock' = Free
      ]_vars

\* a pass has just called close() on two clients, close() raised on one of
\* them, and both are out of the idle lists
C33_Witness ==
    /\ trail.op = "reap"
    /\ last_pass.failed # {}
    /\ last_pass.expired \ last_pass.failed # {}
    /\ last_pass.expired \cap AllIdleClients = {}
    /\ lock = Free

\* C38: when the with-body of a lease raises, the leased client is closed and
\* is not appended to the idle list of its server, whatever the length of that
\* list; the acquire for that server that follows does not get that client,
\* and no closed client is ever in an idle list or held by a caller.
C38_RaisedLeaseDiscarded ==
    /\ [][\A c \in Callers :
            /\ (pc[c] = "using" /\ pc'[c] = "idle" /\ trail'.op = "body_raised"
                /\ trail'.conn = connection[c])
                   => /\ connections' = connections
                      /\ closed'[connection[c]] = closed[connection[c]] + 1
                      /\ connection[c] \notin ClientsOf(connections')
            /\ (pc[c] = "idle" /\ pc'[c] # "idle" /\ trail.op = "body_raised"
                /\ server_name'[c] = trail.t)
                   => connection'[c] # trail.conn
          ]_vars
    /\ [](\A k \in ConnIds :
            closed[k] >= 1 =>
                /\ k \notin AllIdleClients
                /\ \A c \in Callers : connection[c] # k)

\* a with-body has just raised while the idle list of its server had room; the
\* client was closed and is in no idle list
C38_Witness ==
    /\ trail.op = "body_raised"
    /\ closed[trail.conn] = 1
    /\ trail.conn \notin AllIdleClients
    /\ ~HasIdle(trail.t)

\* callers that hold a leased client of server t
Leased(t) ==
    {c \in Callers : pc[c] = "using" /\ server_name[c] = t}

\* C39: get_connection never waits for a leased client to come back and never
\* fails because the pool is exhausted: whenever the lock is free, a call for
\* any server can start, whatever the number of clients leased for it; a call
\* that finds no idle client for its server goes to connect_func, and a client
\* connect_func returned is yielded.
C39_NoLeaseLimit ==
    /\ [](\A t \in Targets :
            (lock = Free /\ calls < MaxCalls /\ \E c \in Callers : pc[c] = "idle")
                => ENABLED (\E c \in Callers : AcquireLock(c, t)))
    /\ [][\A c \in Callers :
            /\ (pc[c] = "idle" /\ pc'[c] # "idle" /\ ~HasIdle(server_name'[c]))
                   => pc'[c] = "connect"
            /\ (pc[c] = "connect" /\ next_conn' = next_conn + 1)
                   => (pc'[c] = "using" /\ connection'[c] = next_conn)
          ]_vars

\* more clients are leased for one server at the same time than
\* max_connections
C39_Witness ==
    \E t \in Targets :
        /\ Cardinality(Leased(t)) > max_connections
        /\ \A c \in Leased(t), d \in Leased(t) : c # d => connection[c] # connection[d]

\* C40: the probe and connect_func run with the lock held: from the moment a
\* call starts probing or connecting until it yields or fails, the caller
\* holds the lock, and no other call starts, no client is returned to the
\* pool and no cleanup pass runs (the idle lists do not change).
C40_ConnectUnderLock ==
    /\ [](\A c \in Callers : pc[c] \in {"probe", "connect"} => lock = c)
    /\ [][\A c \in Callers :
            (pc[c] \in {"probe", "connect"}) =>
                /\ connections' = connections
                /\ \A d \in Callers \ {c} :
                       /\ pc[d] = "idle" => pc'[d] = "idle"
                       /\ (pc[d] = "using" /\ pc'[d] = "idle")
                              => trail'.op = "body_raised"
                /\ ~(rpc = "start" /\ rpc' = "sleep")
          ]_vars

\* a caller is inside connect_func after a failed probe while another caller
\* holds a lease and the cleanup thread is waiting for the lock
C40_Witness ==
    \E c \in Callers, d \in Callers :
        /\ pc[c] = "connect"
        /\ probe_failed[c]
        /\ lock = c
        /\ pc[d] = "using"
        /\ rpc = "start"

\* C31: when no write fails, after unregister_client every message put on the
\* queue of the client before the shutdown signal is written to its transport,
\* in the order it was enqueued, before message_worker exits: the writes are
\* always a prefix of what was enqueued, the worker eventually exits, at its
\* exit the writes are everything enqueued before the signal, and nothing is
\* written afterwards.
C31_DrainBeforeExit ==
    /\ [](\A r \in Regs :
            /\ Len(written[r]) <= Len(enqueued[r])
            /\ written[r] = SubSeq(enqueued[r], 1, Len(written[r]))
            /\ (dpc[r] = "done" /\ Stop \in Elems(enqueued[r]))
                   => enqueued[r] = Append(written[r], Stop))
    /\ [][\A r \in Regs :
            (dpc[r] = "done" /\ Stop \in Elems(enqueued[r]))
                => (written'[r] = written[r] /\ dpc'[r] = "done")]_vars
    /\ \A r \in Regs :
           (Stop \in Elems(enqueued[r]))
               ~> (dpc[r] = "done" /\ enqueued[r] = Append(written[r], Stop))

\* unregister_client has put the shutdown signal behind a message that is
\* still on the queue of the client
C31_Witness ==
    \E r \in Regs :
        /\ dpc[r] = "wait"
        /\ Len(message_queue[r]) >= 2
        /\ message_queue[r][1] # Stop
        /\ message_queue[r][Len(message_queue[r])] = Stop
        /\ written[r] # <<>>

\* C32: subscribe and unsubscribe called with an id that is not in the
\* registry leave the registry, the subscription set of every client and
\* every subscriber set of the event index as they were; no subscriber set is
\* created for the event type.
C32_UnknownIdNoOp ==
    [][\A r \in Regs :
          (/\ hpc[r] \in {"sub", "unsub"}
           /\ hpc'[r] = "open"
           /\ ClientId(ws[r]) \notin DOMAIN clients)
              => /\ clients' = clients
                 /\ subscriptions' = subscriptions
                 /\ event_handlers' = event_handlers
                 /\ DOMAIN event_handlers' = DOMAIN event_handlers
      ]_vars

\* subscribe is running, with _client_lock held, for a connection whose id
\* is no longer in the registry, and the event type has no subscriber set
C32_Witness ==
    \E r \in Regs :
        /\ hpc[r] = "sub"
        /\ client_lock = r
        /\ handler_lock = Free
        /\ ClientId(ws[r]) \notin DOMAIN clients
        /\ h_op[r] \notin DOMAIN event_handlers

\* C34: after a pass of the cache cleanup with clock value current_time, no
\* entry with current_time - timestamp > ttl is left in the cache, for every
\* ttl and every age, every entry with current_time - timestamp <= ttl is
\* still there with its value, and no history series was touched.
C34_SweepExactExpiry ==
    [][(kpc = "start" /\ kpc' = "sleep") =>
          /\ \A k \in DOMAIN mcache :
                 IF k_time - mcache[k].timestamp > mcache[k].ttl
                 THEN k \notin DOMAIN mcache'
                 ELSE k \in DOMAIN mcache' /\ mcache'[k] = mcache[k]
          /\ metric_history' = metric_history
      ]_vars

C36_ResultIsSnapshot ==
    held.items = hist_call.result

\* the subsystems of which thread c holds a lock
HeldSubsystems(c) ==
    (IF lock = c THEN {"pool"} ELSE {})
        \cup (IF cache_lock = c \/ collection_lock = c THEN {"cache"} ELSE {})
        \cup (IF client_lock = c \/ handler_lock = c THEN {"hub"} ELSE {})

\* C37: no thread holds locks of two subsystems at once: while the producer
\* (execute_command, which takes the pool lock) runs, the thread holds neither
\* _cache_lock nor _collection_lock; the two are never held together; and a
\* thread holding a lock of the hub holds no lock of the pool or the cache.
C37_OneSubsystemAtATime ==
    \A c \in Lookers :
        /\ Cardinality(HeldSubsystems(c)) <= 1
        /\ ~(cache_lock = c /\ collection_lock = c)
        /\ (xpc[c] > 0 /\ Program[xpc[c]].fn = "ssh")
               => (cache_lock # c /\ collection_lock # c)

\* one thread is inside get_connection with the pool lock while another
\* thread is inside subscribe with _client_lock and the broadcaster holds
\* _handler_lock
C37_Witness ==
    \E c \in Lookers, d \in Lookers :
        /\ c # d
        /\ lock = c
        /\ xpc[c] > 0 /\ Program[xpc[c]].fn = "ssh"
        /\ client_lock = d
        /\ handler_lock = Broadcaster

====
